---- MODULE Spec2Model ----
(***************************************************************************)
(* LazyMCPanel (lmcp): the configuration schema (schemas/config.py), the   *)
(* configuration store (core/config.py), the compose generator and the     *)
(* orchestrator (core/orchestrator.py) and the up command (cli.py).        *)
(*                                                                         *)
(* Conventions of the model                                                *)
(*   - Python None and an absent mapping key are the empty tuple <<>>; a   *)
(*     present value x is the one-element tuple <<x>>.                     *)
(*   - A dict is a sequence of [key, value] entries with distinct keys, in *)
(*     insertion order.                                                    *)
(*   - Strings that the code formats or transforms (cluster_name,          *)
(*     project_name, the network name) are sequences of one-character      *)
(*     strings; all other strings are atomic.                              *)
(***************************************************************************)
EXTENDS Integers, Sequences, FiniteSets

VARIABLES
    files,      \* [Dirs -> None | Some(file content)]: the lmcp.yaml of each directory
    dirs,       \* the directories that exist
    compose,    \* None | Some(content) of <project_root>/<lmcp_dir>/compose.yml
    cfg,        \* None | Some(ClusterConfig): the configuration object in memory
    built,      \* None | Some(ClusterConfig): the object generate_default_config built
    op,         \* the operation that ran last
    arg,        \* the mapping that operation was given or parsed
    at,         \* the directory whose lmcp.yaml that operation was given as path
    project,    \* the project name that operation was given (<<>> if none)
    exc,        \* the exception that operation propagated to its caller (NoExc if none)
    ret,        \* None | Some(directory) : the path the operation returned
    doc,        \* None | Some(compose document) the generator returned
    log,        \* the error / warning / critical records the operation logged
    invoked,    \* the compose subcommands the operation ran, in order
    exitCode,   \* the exit code of the last CLI command (-1: none ran)
    parent,     \* [directory -> its parent directory]: what Path.parent gives
    current_path,   \* find_config_file: the directory the loop is at
    search_count,   \* find_config_file: the number of moves to a parent so far
    earlier,    \* None | Some(outcome) of the generator run before the last one
    subdirs,    \* the subdirectories that exist: pairs <<directory, name>>
    compose_cmd \* Orchestrator.up: None | Some(command) the detection step found

locator == <<parent, current_path, search_count>>

vars == <<files, dirs, compose, cfg, built, op, arg, at, project, exc, ret, doc, log, invoked, exitCode,
          parent, current_path, search_count, earlier, subdirs, compose_cmd>>

----------------------------------------------------------------------------
(* Bounds *)

MaxActive == 2      \* length of an active_servers list of an input document
MaxDepth == 2       \* depth of the directory chain 0 (root) .. MaxDepth
MaxChain == 52      \* depth of the directory chain 0 (root) .. MaxChain of the locator runs
MaxWords == 3       \* number of words of a line of an input description

----------------------------------------------------------------------------
(* Generic helpers *)

Dirs == 0..MaxDepth
NoFiles == [d \in Dirs |-> <<>>]

(* Path.parent: the root (directory 0) is its own parent *)
Parent(d) == IF d = 0 THEN 0 ELSE d - 1

Chain == 0..MaxChain
NormalChain == [d \in Chain |-> Parent(d)]

(* no find_config_file call is running *)
LocatorIdle ==
    /\ parent = NormalChain
    /\ current_path = 0
    /\ search_count = 0

None == <<>>
Some(x) == <<x>>
IsNone(o) == Len(o) = 0
IsSome(o) == Len(o) = 1
Get(o) == o[1]
OrElse(o, d) == IF Len(o) = 0 THEN d ELSE o[1]

Range(s) == {s[i] : i \in 1..Len(s)}

RECURSIVE SeqsUpTo(_, _)
SeqsUpTo(S, n) ==
    IF n = 0 THEN {<<>>}
    ELSE LET shorter == SeqsUpTo(S, n - 1)
         IN shorter \cup {Append(s, x) : s \in {t \in shorter : Len(t) = n - 1}, x \in S}

IsInj(s) == \A i, j \in 1..Len(s) : i # j => s[i] # s[j]

(* dict helpers: a dict is a sequence of [key |-> k, value |-> v] *)
Keys(d) == [i \in 1..Len(d) |-> d[i].key]
KeySet(d) == {d[i].key : i \in 1..Len(d)}
HasKey(d, k) == \E i \in 1..Len(d) : d[i].key = k
Lookup(d, k) == d[CHOOSE i \in 1..Len(d) : d[i].key = k].value
(* d[k] = v : an existing key keeps its position, a new key goes last *)
DictSet(d, k, v) ==
    IF HasKey(d, k)
    THEN [i \in 1..Len(d) |-> IF d[i].key = k THEN [key |-> k, value |-> v] ELSE d[i]]
    ELSE Append(d, [key |-> k, value |-> v])

----------------------------------------------------------------------------
(* Strings as character sequences *)

S_MyLMCPCluster == <<"M","y"," ","L","M","C","P"," ","C","l","u","s","t","e","r">>
S_MyLMCPNetwork == <<"M","y","L","M","C","P","N","e","t","w","o","r","k">>
S_castle == <<"c","a","s","t","l","e">>
S_MyRealm == <<"M","y"," ","R","e","a","l","m">>
S_net == <<"_","n","e","t">>

Upper == <<"A","B","C","D","E","F","G","H","I","J","K","L","M",
           "N","O","P","Q","R","S","T","U","V","W","X","Y","Z">>
LowerOf == <<"a","b","c","d","e","f","g","h","i","j","k","l","m",
             "n","o","p","q","r","s","t","u","v","w","x","y","z">>

(* str.lower() *)
lower(s) ==
    [i \in 1..Len(s) |->
        IF \E k \in 1..26 : Upper[k] = s[i]
        THEN LowerOf[CHOOSE k \in 1..26 : Upper[k] = s[i]]
        ELSE s[i]]

(* str.replace(old, new) for one-character old and new *)
replace(s, old, new) == [i \in 1..Len(s) |-> IF s[i] = old THEN new ELSE s[i]]

----------------------------------------------------------------------------
(* Schema: schemas/config.py *)

ClusterConfigFields ==
    {"cluster_name", "lmcp_dir", "servers_dir", "templates_dir",
     "container_env", "velocity", "servers", "active_servers"}

ImagesConfigFields == {"java8", "java21"}

(* Attributes every pydantic BaseModel instance has besides its fields
   (the model's bounded sample of them). *)
BaseModelAttrs == {"model_dump", "copy"}

DefaultServerJava == "java21"
DefaultImageJava8 == "localhost/lmcp:jre8-py312"
DefaultImageJava21 == "localhost/lmcp:jre21-py312"
DefaultServiceName == "velocity"
DefaultVelocityJava == "java21"
DefaultPort == 25565
DefaultLmcpDir == ".lmcp"
DefaultServersDir == "servers"
DefaultTemplatesDir == "templates"

DefaultServers ==
    << [key |-> "lobby", value |-> [java_version |-> "java21"]],
       [key |-> "survival", value |-> [java_version |-> "java8"]] >>

DefaultNetwork == [name |-> S_MyLMCPNetwork]
DefaultImages == [java8 |-> DefaultImageJava8, java21 |-> DefaultImageJava21]
DefaultContainerEnv == [network |-> DefaultNetwork, images |-> DefaultImages]
DefaultVelocity ==
    [service_name |-> DefaultServiceName, java_version |-> DefaultVelocityJava,
     port |-> DefaultPort]

DefaultClusterConfig ==
    [cluster_name |-> S_MyLMCPCluster,
     lmcp_dir |-> DefaultLmcpDir,
     servers_dir |-> DefaultServersDir,
     templates_dir |-> DefaultTemplatesDir,
     container_env |-> DefaultContainerEnv,
     velocity |-> DefaultVelocity,
     servers |-> DefaultServers,
     active_servers |-> None]

(* The keyword arguments / parsed mapping a model is constructed from.  Every
   field is None (absent) or Some(value); extra holds the keys that are no
   field of the model; bad holds the fields whose value has the wrong shape. *)
RawServer(java) == [java_version |-> java, extra |-> {}]
RawNetworkEmpty == [name |-> None, extra |-> {}]
RawImagesEmpty == [java8 |-> None, java21 |-> None, extra |-> {}]
RawContainerEnvEmpty == [network |-> None, images |-> None, extra |-> {}]
RawVelocityEmpty == [service_name |-> None, java_version |-> None, port |-> None, extra |-> {}]

EmptyDoc ==
    [cluster_name |-> None, lmcp_dir |-> None, servers_dir |-> None,
     templates_dir |-> None, container_env |-> None, velocity |-> None,
     servers |-> None, active_servers |-> None, extra |-> {}, bad |-> {}]

(* Model construction (pydantic BaseModel.__init__): a missing field takes its
   declared default; no model sets model_config, so a key that is no field is
   ignored (pydantic's default extra = 'ignore'). *)
ServerConfig(raw) == [java_version |-> OrElse(raw.java_version, DefaultServerJava)]

NetworkConfig(raw) == [name |-> OrElse(raw.name, S_MyLMCPNetwork)]

ImagesConfig(raw) ==
    [java8 |-> OrElse(raw.java8, DefaultImageJava8),
     java21 |-> OrElse(raw.java21, DefaultImageJava21)]

ContainerEnvConfig(raw) ==
    [network |-> NetworkConfig(OrElse(raw.network, RawNetworkEmpty)),
     images |-> ImagesConfig(OrElse(raw.images, RawImagesEmpty))]

VelocityConfig(raw) ==
    [service_name |-> OrElse(raw.service_name, DefaultServiceName),
     java_version |-> OrElse(raw.java_version, DefaultVelocityJava),
     port |-> OrElse(raw.port, DefaultPort)]

ServersDict(rawServers) ==
    [i \in 1..Len(rawServers) |->
        [key |-> rawServers[i].key, value |-> ServerConfig(rawServers[i].value)]]

\* The model constructor called with the mapping's entries as keyword arguments:
\* [ok, cfg]; ok = FALSE is pydantic's ValidationError.
ClusterConfig(data) ==
    IF data.bad # {}
    THEN [ok |-> FALSE, cfg |-> DefaultClusterConfig]
    ELSE [ok |-> TRUE,
          cfg |->
            [cluster_name |-> OrElse(data.cluster_name, S_MyLMCPCluster),
             lmcp_dir |-> OrElse(data.lmcp_dir, DefaultLmcpDir),
             servers_dir |-> OrElse(data.servers_dir, DefaultServersDir),
             templates_dir |-> OrElse(data.templates_dir, DefaultTemplatesDir),
             container_env |->
                ContainerEnvConfig(OrElse(data.container_env, RawContainerEnvEmpty)),
             velocity |-> VelocityConfig(OrElse(data.velocity, RawVelocityEmpty)),
             servers |->
                IF IsNone(data.servers) THEN DefaultServers
                ELSE ServersDict(Get(data.servers)),
             active_servers |-> OrElse(data.active_servers, None)]]

(* getattr(obj, name) on a model instance: a field gives its value, another
   attribute of the object gives that attribute, anything else raises
   AttributeError. *)
HasAttr(fields, name) == name \in fields \cup BaseModelAttrs

----------------------------------------------------------------------------
(* Log records and exceptions *)

LogRec(level, what, subject, key) ==
    [level |-> level, what |-> what, subject |-> subject, key |-> key]

Exc(type, what, subject, key) ==
    [type |-> type, what |-> what, subject |-> subject, key |-> key]

NoExc == Exc("", "", "", "")

Reported(l) == {l[i] : i \in {j \in 1..Len(l) : l[j].level \in {"error", "critical"}}}

----------------------------------------------------------------------------
(* Compose generator: core/orchestrator.py *)

VelocityContainerPort == 25565

(* getattr(cfg.container_env.images, key): [found, value] *)
BoundMethod == "<bound method>"
getattr_images(images, key) ==
    IF key = "java8" THEN [found |-> TRUE, value |-> images.java8]
    ELSE IF key = "java21" THEN [found |-> TRUE, value |-> images.java21]
    ELSE IF HasAttr(ImagesConfigFields, key) THEN [found |-> TRUE, value |-> BoundMethod]
    ELSE [found |-> FALSE, value |-> ""]

(* cfg.cluster_name.lower().replace(' ', '-') *)
slug(cluster_name) == replace(lower(cluster_name), " ", "-")

(* variant: an absent active_servers is treated like an empty list *)
active_server_names_none_as_empty(c) ==
    IF IsNone(c.active_servers)
    THEN <<>>
    ELSE SelectSeq(Get(c.active_servers), LAMBDA name : HasKey(c.servers, name))

(* variant: the servers mapping is filtered by the list, which loses the
   order the list gives *)
active_server_names_in_servers_order(c) ==
    IF IsNone(c.active_servers)
    THEN Keys(c.servers)
    ELSE SelectSeq(Keys(c.servers), LAMBDA name : name \in Range(Get(c.active_servers)))

(* variant: every defined server is activated, whatever the list says *)
active_server_names_all_defined(c) == Keys(c.servers)

(* step 1: the names of the servers to activate, in order *)
active_server_names(c) ==
    IF IsNone(c.active_servers)
    THEN Keys(c.servers)
    ELSE SelectSeq(Get(c.active_servers), LAMBDA name : HasKey(c.servers, name))

(* step 1: one warning for each listed name that is no key of servers *)
active_warnings(c) ==
    IF IsNone(c.active_servers)
    THEN <<>>
    ELSE LET missing == SelectSeq(Get(c.active_servers),
                                  LAMBDA name : ~HasKey(c.servers, name))
         IN [i \in 1..Len(missing) |->
                LogRec("warning", "undefined_server", missing[i], "")]

(* step 2: the service definition of the proxy *)
velocity_service(c, image) ==
    [image |-> image,
     container_name |-> [slug |-> slug(c.cluster_name), name |-> c.velocity.service_name],
     ports |-> Some(<<[host |-> c.velocity.port, container |-> VelocityContainerPort]>>),
     volumes |-> <<[servers_dir |-> c.servers_dir, name |-> c.velocity.service_name]>>,
     networks |-> <<c.container_env.network.name>>,
     restart |-> "unless-stopped",
     stdin_open |-> TRUE,
     tty |-> TRUE]

(* variant: the server joins the network of the schema's default name *)
server_service_default_network(c, server_name, image) ==
    [image |-> image,
     container_name |-> [slug |-> slug(c.cluster_name), name |-> server_name],
     ports |-> None,
     volumes |-> <<[servers_dir |-> c.servers_dir, name |-> server_name]>>,
     networks |-> <<S_MyLMCPNetwork>>,
     restart |-> "unless-stopped",
     stdin_open |-> TRUE,
     tty |-> TRUE]

(* step 3: the service definition of one backend server *)
server_service(c, server_name, image) ==
    [image |-> image,
     container_name |-> [slug |-> slug(c.cluster_name), name |-> server_name],
     ports |-> None,
     volumes |-> <<[servers_dir |-> c.servers_dir, name |-> server_name]>>,
     networks |-> <<c.container_env.network.name>>,
     restart |-> "unless-stopped",
     stdin_open |-> TRUE,
     tty |-> TRUE]

(* variant: a key that is set again moves to the end of the mapping *)
put_service_last(services, name, def) ==
    Append(SelectSeq(services, LAMBDA e : e.key # name), [key |-> name, value |-> def])

(* services[name] = definition *)
put_service(services, name, def) == DictSet(services, name, def)

(* step 3: the loop over the active servers; stops at the first server whose
   image key is no attribute of the images object *)
RECURSIVE server_loop(_, _, _)
server_loop(c, names, services) ==
    IF names = <<>>
    THEN [ok |-> TRUE, services |-> services, exc |-> NoExc, log |-> <<>>]
    ELSE LET server_name == Head(names)
             key == Lookup(c.servers, server_name).java_version
             img == getattr_images(c.container_env.images, key)
         IN IF ~img.found
            THEN [ok |-> FALSE, services |-> <<>>,
                  exc |-> Exc("ValueError", "server_image", server_name, key),
                  log |-> <<LogRec("error", "server_image", server_name, key)>>]
            ELSE server_loop(c, Tail(names),
                             put_service(services, server_name,
                                         server_service(c, server_name, img.value)))

(* step 4 *)
network_definition(c) ==
    << [key |-> c.container_env.network.name,
        value |-> [driver |-> "bridge", name |-> c.container_env.network.name]] >>

NoDoc == [version |-> "", services |-> <<>>, networks |-> <<>>]

(* Orchestrator._generate_compose_dict: [ok, doc, exc, log] *)
generate_compose_dict(c) ==
    LET names == active_server_names(c)
        warnings == active_warnings(c)
        vkey == c.velocity.java_version
        vimg == getattr_images(c.container_env.images, vkey)
    IN IF ~vimg.found
       THEN [ok |-> FALSE, doc |-> NoDoc,
             exc |-> Exc("ValueError", "velocity_image", "", vkey),
             log |-> Append(warnings, LogRec("error", "velocity_image", "", vkey))]
       ELSE LET first == put_service(<<>>, c.velocity.service_name,
                                     velocity_service(c, vimg.value))
                r == server_loop(c, names, first)
            IN IF ~r.ok
               THEN [ok |-> FALSE, doc |-> NoDoc, exc |-> r.exc, log |-> warnings \o r.log]
               ELSE [ok |-> TRUE,
                     doc |-> [version |-> "3.8", services |-> r.services,
                              networks |-> network_definition(c)],
                     exc |-> NoExc,
                     log |-> warnings]

----------------------------------------------------------------------------
(* Input documents of the generator runs *)

ServerNames == {"lobby", "survival"}
ListedNames == ServerNames \cup {"velocity"}
ServerRuntimes == {"java8", "java17", "model_dump"}
VelocityRuntimes == {"java17", "model_dump"}
ServiceNames == {"lobby"}

RawServersSet ==
    {[i \in 1..Len(ks) |-> [key |-> ks[i], value |-> RawServer(Some(js[i]))]] :
        <<ks, js>> \in {p \in SeqsUpTo(ServerNames, Cardinality(ServerNames))
                               \X SeqsUpTo(ServerRuntimes, Cardinality(ServerNames)) :
                            Len(p[1]) = Len(p[2]) /\ IsInj(p[1])}}

ActiveSet == {None} \cup {Some(l) : l \in SeqsUpTo(ListedNames, MaxActive)}

(* the value an input document gives for the key java17 of its images section *)
Java17Image == "localhost/lmcp:jre17-py312"

(* container_env sections: absent, or one that names the network castle_net and
   adds the key java17 to images *)
ContainerEnvs ==
    {None,
     Some([RawContainerEnvEmpty EXCEPT
            !.network = Some([RawNetworkEmpty EXCEPT !.name = Some(S_castle \o S_net)]),
            !.images = Some([RawImagesEmpty EXCEPT !.extra = {"java17"}])])}

GenDocs ==
    {[EmptyDoc EXCEPT !.servers = Some(sv),
                      !.active_servers = IF IsNone(act) THEN None ELSE Some(act),
                      !.velocity = Some([RawVelocityEmpty EXCEPT !.java_version = vj,
                                                                !.service_name = sn]),
                      !.container_env = ce] :
        sv \in RawServersSet, act \in ActiveSet,
        vj \in {None} \cup {Some(j) : j \in VelocityRuntimes},
        sn \in {None} \cup {Some(n) : n \in ServiceNames},
        ce \in ContainerEnvs}

----------------------------------------------------------------------------
(* Generator runs *)

InitGen ==
    /\ files = NoFiles
    /\ dirs = {0}
    /\ compose = None
    /\ cfg = None
    /\ built = None
    /\ op = "init"
    /\ arg = EmptyDoc
    /\ at = 0
    /\ project = <<>>
    /\ exc = NoExc
    /\ ret = None
    /\ doc = None
    /\ log = <<>>
    /\ invoked = <<>>
    /\ exitCode = -1
    /\ earlier = None
    /\ subdirs = {}
    /\ compose_cmd = None
    /\ LocatorIdle

(* Orchestrator.__init__ with the configuration object the schema builds from
   data; one orchestrator is constructed per run *)
NewOrchestrator(data) ==
    /\ op = "init"
    /\ ClusterConfig(data).ok
    /\ op' = "new"
    /\ arg' = data
    /\ cfg' = Some(ClusterConfig(data).cfg)
    /\ UNCHANGED <<files, dirs, compose, built, at, project, exc, ret, doc, log, invoked, exitCode, locator, earlier, subdirs, compose_cmd>>

(* the outcome of a generator run: the document returned (None if none) and
   the exception raised *)
Outcome(d, e) == [doc |-> d, exc |-> e]

(* variant: the generator takes the names it reads out of the configuration's
   active_servers list *)
GenerateComposeDict_consuming ==
    /\ op \in {"new", "generate"}
    /\ LET r == generate_compose_dict(Get(cfg))
       IN /\ op' = "generate"
          /\ exc' = r.exc
          /\ doc' = IF r.ok THEN Some(r.doc) ELSE None
          /\ log' = r.log
    /\ earlier' = IF op = "generate" THEN Some(Outcome(doc, exc)) ELSE None
    /\ cfg' = Some([Get(cfg) EXCEPT
                       !.active_servers = IF IsNone(@) THEN @ ELSE Some(<<>>)])
    /\ UNCHANGED <<files, dirs, compose, built, arg, at, project, ret, invoked, exitCode, locator, subdirs, compose_cmd>>

(* Orchestrator._generate_compose_dict(); it may be called again on the same
   orchestrator, and earlier then keeps the outcome of the call before *)
GenerateComposeDict ==
    /\ op \in {"new", "generate"}
    /\ LET r == generate_compose_dict(Get(cfg))
       IN /\ op' = "generate"
          /\ exc' = r.exc
          /\ doc' = IF r.ok THEN Some(r.doc) ELSE None
          /\ log' = r.log
    /\ earlier' = IF op = "generate" THEN Some(Outcome(doc, exc)) ELSE None
    /\ UNCHANGED <<files, dirs, compose, cfg, built, arg, at, project, ret, invoked, exitCode, locator, subdirs, compose_cmd>>

NextGen ==
    \/ \E data \in GenDocs : NewOrchestrator(data)
    \/ GenerateComposeDict

SpecGen == InitGen /\ [][NextGen]_vars

----------------------------------------------------------------------------
(* Configuration store: core/config.py *)

(* The content of a file: what the YAML parser makes of it.  kind is "map" (a
   mapping, held in data), "list", "scalar", "empty" (parses to None) or
   "malformed" (the parser raises). *)
FileOf(data) == [kind |-> "map", data |-> data]
FileOfKind(kind) == [kind |-> kind, data |-> EmptyDoc]

Exists(fs, d) == IsSome(fs[d])

(* BaseModel.model_dump(): every field present, no other key *)
dump_server(sc) == [java_version |-> Some(sc.java_version), extra |-> {}]

dump_servers(servers) ==
    [i \in 1..Len(servers) |->
        [key |-> servers[i].key, value |-> dump_server(servers[i].value)]]

model_dump(c) ==
    [cluster_name |-> Some(c.cluster_name),
     lmcp_dir |-> Some(c.lmcp_dir),
     servers_dir |-> Some(c.servers_dir),
     templates_dir |-> Some(c.templates_dir),
     container_env |->
        Some([network |-> Some([name |-> Some(c.container_env.network.name),
                                extra |-> {}]),
              images |-> Some([java8 |-> Some(c.container_env.images.java8),
                               java21 |-> Some(c.container_env.images.java21),
                               extra |-> {}]),
              extra |-> {}]),
     velocity |->
        Some([service_name |-> Some(c.velocity.service_name),
              java_version |-> Some(c.velocity.java_version),
              port |-> Some(c.velocity.port),
              extra |-> {}]),
     servers |-> Some(dump_servers(c.servers)),
     active_servers |-> Some(c.active_servers),
     extra |-> {},
     bad |-> {}]

(* yaml.dump(mapping, f) and yaml.load(f) *)
yaml_dump(data) == FileOf(data)
yaml_load(content) ==
    [raises |-> content.kind = "malformed",
     isNone |-> content.kind = "empty",
     isDict |-> content.kind = "map",
     data |-> content.data]

(* config.project_name: ClusterConfig declares no such field, extra keys are
   not kept, so the attribute lookup raises AttributeError *)
load_attr_found == HasAttr(ClusterConfigFields, "project_name")

(* ConfigManager.load_config(path): [exc, cfg, data, log] *)
load_config(fs, d) ==
    IF ~Exists(fs, d)
    THEN [exc |-> Exc("FileNotFoundError", "config_file", "", ""),
          cfg |-> None, data |-> EmptyDoc,
          log |-> <<LogRec("error", "config_file_missing", "", "")>>]
    ELSE LET y == yaml_load(Get(fs[d]))
         IN IF y.raises
            THEN [exc |-> Exc("YAMLError", "config_file", "", ""),
                  cfg |-> None, data |-> EmptyDoc,
                  log |-> <<LogRec("error", "yaml_parse", "", "")>>]
            ELSE IF y.isNone
            THEN [exc |-> Exc("ValueError", "config_file_empty", "", ""),
                  cfg |-> None, data |-> EmptyDoc,
                  log |-> <<LogRec("error", "config_file_empty", "", "")>>]
            ELSE IF ~y.isDict
            THEN \* unpacking a non-mapping as keyword arguments
                 [exc |-> Exc("TypeError", "not_a_mapping", "", ""),
                  cfg |-> None, data |-> EmptyDoc, log |-> <<>>]
            ELSE LET v == ClusterConfig(y.data)
                 IN IF ~v.ok
                    THEN \* raise ValidationError(str): pydantic's ValidationError
                         \* has no such constructor, the raise itself raises
                         [exc |-> Exc("TypeError", "validation", "", ""),
                          cfg |-> None, data |-> y.data,
                          log |-> <<LogRec("error", "validation", "", "")>>]
                    ELSE IF ~load_attr_found
                    THEN [exc |-> Exc("AttributeError", "project_name", "", ""),
                          cfg |-> None, data |-> y.data, log |-> <<>>]
                    ELSE [exc |-> NoExc, cfg |-> Some(v.cfg), data |-> y.data,
                          log |-> <<>>]

(* Path.mkdir(parents=True, exist_ok=True) on directory d *)
mkdir_parents(ds, d) == ds \cup 0..d

(* config.project_name read after the file is written *)
save_attr_found == HasAttr(ClusterConfigFields, "project_name")

(* ConfigManager.save_config(config, path): [files, dirs, exc, ret, log] *)
save_config(fs, ds, c, d) ==
    LET ds1 == mkdir_parents(ds, d)
        fs1 == [fs EXCEPT ![d] = Some(yaml_dump(model_dump(c)))]
    IN IF ~save_attr_found
       THEN [files |-> fs1, dirs |-> ds1,
             exc |-> Exc("AttributeError", "project_name", "", ""),
             ret |-> None,
             log |-> <<LogRec("error", "save_failed", "", "")>>]
       ELSE [files |-> fs1, dirs |-> ds1, exc |-> NoExc, ret |-> Some(d), log |-> <<>>]

(* The fields the schema classes declare, in declaration order: the name, the
   description (named after the field that declares it), the class of a
   nested model ("" if none) and the class of the values of a dict ("" if
   none). *)
FieldInfo(name, description, model, values) ==
    [name |-> name, description |-> description, model |-> model, values |-> values]

ModelFields ==
    [ClusterConfig |->
        << FieldInfo("cluster_name", "ClusterConfig.cluster_name", "", ""),
           FieldInfo("lmcp_dir", "ClusterConfig.lmcp_dir", "", ""),
           FieldInfo("servers_dir", "ClusterConfig.servers_dir", "", ""),
           FieldInfo("templates_dir", "ClusterConfig.templates_dir", "", ""),
           FieldInfo("container_env", "ClusterConfig.container_env", "ContainerEnvConfig", ""),
           FieldInfo("velocity", "ClusterConfig.velocity", "VelocityConfig", ""),
           FieldInfo("servers", "ClusterConfig.servers", "", "ServerConfig"),
           FieldInfo("active_servers", "ClusterConfig.active_servers", "", "") >>,
     ContainerEnvConfig |->
        << FieldInfo("network", "ContainerEnvConfig.network", "NetworkConfig", ""),
           FieldInfo("images", "ContainerEnvConfig.images", "ImagesConfig", "") >>,
     NetworkConfig |-> << FieldInfo("name", "NetworkConfig.name", "", "") >>,
     ImagesConfig |->
        << FieldInfo("java8", "ImagesConfig.java8", "", ""),
           FieldInfo("java21", "ImagesConfig.java21", "", "") >>,
     VelocityConfig |->
        << FieldInfo("service_name", "VelocityConfig.service_name", "", ""),
           FieldInfo("java_version", "VelocityConfig.java_version", "", ""),
           FieldInfo("port", "VelocityConfig.port", "", "") >>,
     ServerConfig |-> << FieldInfo("java_version", "ServerConfig.java_version", "", "") >>]

(* the classes ClusterConfig refers to: the keys of $defs *)
DefNames ==
    <<"ContainerEnvConfig", "ImagesConfig", "NetworkConfig", "ServerConfig", "VelocityConfig">>

(* A JSON-schema dict, by the keys the comment generation reads: description,
   $ref, properties and $defs, each None when the key is absent. *)
SchemaDict(description, ref, properties, defs) ==
    [description |-> description, ref |-> ref, properties |-> properties, defs |-> defs]

EmptySchema == SchemaDict(None, None, None, None)

(* How the library writes the schema of a field whose type is a model and
   that has a description of its own: "ref" is {"$ref": ..., "description":
   ...}, "allOf" is {"allOf": [{"$ref": ...}], "description": ...}.  Which
   one depends on the installed pydantic release. *)
RefForms == {"ref", "allOf"}

(* the schema of one field *)
field_schema(f, form) ==
    SchemaDict(Some(f.description),
               IF f.model # "" /\ form = "ref" THEN Some(f.model) ELSE None,
               None, None)

(* the schema of one class, without $defs: its docstring is its description *)
class_schema(cls, form) ==
    SchemaDict(Some(cls),
               None,
               Some([i \in 1..Len(ModelFields[cls]) |->
                        [key |-> ModelFields[cls][i].name,
                         value |-> field_schema(ModelFields[cls][i], form)]]),
               None)

(* ClusterConfig.model_json_schema() *)
model_json_schema(form) ==
    [class_schema("ClusterConfig", form) EXCEPT
        !.defs = Some([i \in 1..Len(DefNames) |->
                          [key |-> DefNames[i], value |-> class_schema(DefNames[i], form)]])]

(* the dictionary model_dump() gives, as a tree: a dict, a list or a scalar *)
Leaf == [kind |-> "leaf", items |-> <<>>]
ListNode(items) == [kind |-> "list", items |-> items]
MapNode(items) == [kind |-> "map", items |-> items]
Entry(key, value) == [key |-> key, value |-> value]

config_dict(c) ==
    MapNode(<<
        Entry("cluster_name", Leaf),
        Entry("lmcp_dir", Leaf),
        Entry("servers_dir", Leaf),
        Entry("templates_dir", Leaf),
        Entry("container_env",
              MapNode(<< Entry("network", MapNode(<<Entry("name", Leaf)>>)),
                         Entry("images", MapNode(<<Entry("java8", Leaf),
                                                   Entry("java21", Leaf)>>)) >>)),
        Entry("velocity", MapNode(<< Entry("service_name", Leaf),
                                     Entry("java_version", Leaf),
                                     Entry("port", Leaf) >>)),
        Entry("servers",
              MapNode([i \in 1..Len(c.servers) |->
                          Entry(c.servers[i].key, MapNode(<<Entry("java_version", Leaf)>>))])),
        Entry("active_servers",
              IF IsNone(c.active_servers) THEN Leaf
              ELSE ListNode([i \in 1..Len(Get(c.active_servers)) |-> Leaf])) >>)

(* the comment written for a description: its formatted text *)
Comment(description) == [formatted |-> description]

(* _extract_properties_schema(current_schema, parent_key); parent_key is None
   at the top level *)
extract_properties_schema(current_schema, parent_key) ==
    IF current_schema = EmptySchema THEN <<>>
    ELSE IF IsSome(current_schema.properties) THEN Get(current_schema.properties)
    ELSE IF IsSome(current_schema.defs) /\ IsSome(parent_key)
    THEN LET with == SelectSeq(Get(current_schema.defs),
                               LAMBDA e : IsSome(e.value.properties))
         IN IF with = <<>> THEN <<>> ELSE Get(Head(with).value.properties)
    ELSE <<>>

(* the $ref of key_schema resolves in the $defs of current_schema *)
ref_resolves(key_schema, current_schema) ==
    /\ IsSome(key_schema.ref)
    /\ current_schema # EmptySchema
    /\ IsSome(current_schema.defs)
    /\ HasKey(Get(current_schema.defs), Get(key_schema.ref))

(* _resolve_key_schema(key, properties_schema, current_schema) *)
resolve_key_schema(key, properties_schema, current_schema) ==
    LET key_schema == IF HasKey(properties_schema, key)
                      THEN Lookup(properties_schema, key) ELSE EmptySchema
    IN IF IsSome(key_schema.description)
       THEN IF ref_resolves(key_schema, current_schema)
            THEN [Lookup(Get(current_schema.defs), Get(key_schema.ref))
                    EXCEPT !.description = key_schema.description]
            ELSE key_schema
       ELSE IF ref_resolves(key_schema, current_schema)
       THEN Lookup(Get(current_schema.defs), Get(key_schema.ref))
       ELSE key_schema

(* _convert_to_commented_structure(data, current_schema, parent_key), with
   _process_dict_with_comments and _process_list_with_comments: the keys of
   the commented structure in the order they are written, each with its path
   and the comment set before it (None: no comment).  No schema of this
   model has items, so the elements of a list get no schema. *)
RECURSIVE convert_to_commented_structure(_, _, _, _)
RECURSIVE process_items(_, _, _, _)
process_items(items, current_schema, parent_key, path) ==
    IF items = <<>> THEN <<>>
    ELSE LET key == Head(items).key
             properties_schema == extract_properties_schema(current_schema, parent_key)
             key_schema == resolve_key_schema(key, properties_schema, current_schema)
         IN << [path |-> Append(path, key),
                comment |-> IF IsSome(key_schema.description)
                            THEN Some(Comment(Get(key_schema.description)))
                            ELSE None] >>
            \o convert_to_commented_structure(Head(items).value, key_schema,
                                               Some(key), Append(path, key))
            \o process_items(Tail(items), current_schema, parent_key, path)

convert_to_commented_structure(data, current_schema, parent_key, path) ==
    IF data.kind = "map"
    THEN process_items(data.items, current_schema, parent_key, path)
    ELSE <<>>

(* _generate_yaml_with_comments: the file that is written *)
yaml_dump_with_comments(c, form) ==
    [kind |-> "map",
     data |-> model_dump(c),
     comments |-> convert_to_commented_structure(config_dict(c), model_json_schema(form),
                                                 None, <<>>)]

(* the keyword arguments generate_default_config passes to ClusterConfig *)
default_kwargs(project_name) ==
    [EmptyDoc EXCEPT
        !.lmcp_dir = Some(".lmcp"),
        !.servers_dir = Some("servers"),
        !.templates_dir = Some("templates"),
        !.container_env =
            Some([network |-> Some([name |-> Some(project_name \o S_net), extra |-> {}]),
                  images |-> Some(RawImagesEmpty),
                  extra |-> {}]),
        !.velocity = Some(RawVelocityEmpty),
        !.active_servers = Some(Some(<<>>)),
        !.extra = {"project_name"}]

(* ConfigManager.generate_default_config(project_name, path), with the form
   in which the installed library writes the schema:
   [files, dirs, built, exc, ret, log] *)
generate_default_config(fs, ds, project_name, d, form) ==
    LET ds1 == mkdir_parents(ds, d)
        v == ClusterConfig(default_kwargs(project_name))
    IN IF ~v.ok
       THEN [files |-> fs, dirs |-> ds1, built |-> None,
             exc |-> Exc("ValidationError", "validation", "", ""), ret |-> None,
             log |-> <<LogRec("error", "generate_failed", "", "")>>]
       ELSE [files |-> [fs EXCEPT ![d] = Some(yaml_dump_with_comments(v.cfg, form))],
             dirs |-> ds1, built |-> Some(v.cfg), exc |-> NoExc, ret |-> Some(d),
             log |-> <<>>]

(* the exception classes validate_config_file names in its except clauses *)
ValidateNamed == {"FileNotFoundError", "ValidationError", "YAMLError", "ValueError"}

(* the exception classes load_config can raise; each is a subclass of
   Exception *)
ExceptionSubclasses ==
    {"FileNotFoundError", "ValidationError", "YAMLError", "ValueError",
     "TypeError", "AttributeError"}

(* variant: without the last clause, except Exception *)
caught_named_only(type) == type \in ValidateNamed

(* whether one of the except clauses of validate_config_file handles an
   exception of this class *)
caught(type) == type \in ValidateNamed \/ type \in ExceptionSubclasses

(* ConfigManager.validate_config_file(path): [ret, exc, log]; ret is None when
   the call raises *)
validate_config_file(fs, d) ==
    LET r == load_config(fs, d)
    IN IF r.exc = NoExc
       THEN [ret |-> Some(TRUE), exc |-> NoExc, log |-> r.log]
       ELSE IF caught(r.exc.type)
       THEN [ret |-> Some(FALSE), exc |-> NoExc,
             log |-> Append(r.log, LogRec("error", "validation_failed", r.exc.type, ""))]
       ELSE [ret |-> None, exc |-> r.exc, log |-> r.log]

----------------------------------------------------------------------------
(* Input documents and files of the store runs *)

ProjectNames == {S_castle, S_MyRealm}

(* mappings that satisfy the schema: known keys only, values of the right shape *)
ValidDocs ==
    {[EmptyDoc EXCEPT !.cluster_name = cn, !.servers_dir = sd,
                      !.active_servers = act, !.velocity = v] :
        cn \in {None, Some(S_castle)},
        sd \in {None, Some("srv")},
        act \in {None, Some(None), Some(Some(<<"lobby">>))},
        v \in {None, Some([RawVelocityEmpty EXCEPT !.port = Some(25577)])}}
    \cup
    {[EmptyDoc EXCEPT !.container_env = Some(ce)] :
        ce \in {RawContainerEnvEmpty,
                [RawContainerEnvEmpty EXCEPT
                    !.network = Some([RawNetworkEmpty EXCEPT !.name = Some(S_castle \o S_net)])],
                [RawContainerEnvEmpty EXCEPT
                    !.images = Some([RawImagesEmpty EXCEPT !.java21 = Some("img/custom21")])]}}
    \cup
    {[EmptyDoc EXCEPT !.servers = Some(sv)] :
        sv \in {<<>>, <<[key |-> "creative", value |-> RawServer(None)]>>,
                <<[key |-> "creative", value |-> RawServer(Some("java8"))]>>}}

(* mappings with one key that is no field, at the top level or in a nested entity *)
UnknownKeyDocs ==
    {[EmptyDoc EXCEPT !.extra = {"foo"}],
     [EmptyDoc EXCEPT !.extra = {"project_name"}],
     [EmptyDoc EXCEPT !.container_env = Some([RawContainerEnvEmpty EXCEPT !.extra = {"foo"}])],
     [EmptyDoc EXCEPT !.container_env =
        Some([RawContainerEnvEmpty EXCEPT !.network = Some([RawNetworkEmpty EXCEPT !.extra = {"foo"}])])],
     [EmptyDoc EXCEPT !.container_env =
        Some([RawContainerEnvEmpty EXCEPT !.images = Some([RawImagesEmpty EXCEPT !.extra = {"java17"}])])],
     [EmptyDoc EXCEPT !.velocity = Some([RawVelocityEmpty EXCEPT !.extra = {"motd"}])],
     [EmptyDoc EXCEPT !.servers =
        Some(<<[key |-> "lobby", value |-> [java_version |-> None, extra |-> {"memory"}]]>>)]}

(* mappings with a value of the wrong shape (velocity: a string) *)
WrongShapeDocs == {[EmptyDoc EXCEPT !.bad = {"velocity"}]}

StoreDocs == ValidDocs \cup UnknownKeyDocs \cup WrongShapeDocs

InitDocs ==
    {d \in ValidDocs : d.servers_dir = None /\ d.velocity = None}
    \cup UnknownKeyDocs \cup WrongShapeDocs

InitFiles ==
    {FileOf(d) : d \in InitDocs}
    \cup {FileOfKind(k) : k \in {"list", "scalar", "empty", "malformed"}}

----------------------------------------------------------------------------
(* Store runs *)

(* the disk when the process starts: the directories 0..k exist and the deepest
   one may hold an lmcp.yaml *)
InitStore ==
    /\ \E k \in Dirs :
        /\ dirs = 0..k
        /\ \/ files = NoFiles
           \/ \E f \in InitFiles : files = [NoFiles EXCEPT ![k] = Some(f)]
    /\ compose = None
    /\ cfg = None
    /\ built = None
    /\ op = "init"
    /\ arg = EmptyDoc
    /\ at = 0
    /\ project = <<>>
    /\ exc = NoExc
    /\ ret = None
    /\ doc = None
    /\ log = <<>>
    /\ invoked = <<>>
    /\ exitCode = -1
    /\ earlier = None
    /\ subdirs = {}
    /\ compose_cmd = None
    /\ LocatorIdle

(* the caller constructs a configuration object from a mapping *)
ConstructConfig(data) ==
    /\ op = "init"
    /\ LET v == ClusterConfig(data)
       IN /\ cfg' = IF v.ok THEN Some(v.cfg) ELSE None
          /\ exc' = IF v.ok THEN NoExc ELSE Exc("ValidationError", "validation", "", "")
    /\ op' = "construct"
    /\ arg' = data
    /\ UNCHANGED <<files, dirs, compose, built, at, project, ret, doc, log, invoked, exitCode, locator, earlier, subdirs, compose_cmd>>

LoadConfig(d) ==
    /\ op \in {"init", "save_config", "generate_default_config", "load_config"}
    /\ LET r == load_config(files, d)
       IN /\ cfg' = r.cfg
          /\ arg' = r.data
          /\ exc' = r.exc
          /\ log' = r.log
    /\ op' = "load_config"
    /\ at' = d
    /\ ret' = None
    /\ UNCHANGED <<files, dirs, compose, built, project, doc, invoked, exitCode, locator, earlier, subdirs, compose_cmd>>

SaveConfig(d) ==
    /\ op = "construct"
    /\ IsSome(cfg)
    /\ LET r == save_config(files, dirs, Get(cfg), d)
       IN /\ files' = r.files
          /\ dirs' = r.dirs
          /\ exc' = r.exc
          /\ ret' = r.ret
          /\ log' = r.log
    /\ op' = "save_config"
    /\ at' = d
    /\ UNCHANGED <<compose, cfg, built, arg, project, doc, invoked, exitCode, locator, earlier, subdirs, compose_cmd>>

GenerateDefaultConfig(project_name, d) ==
    /\ op = "init"
    /\ \E form \in RefForms :
       LET r == generate_default_config(files, dirs, project_name, d, form)
       IN /\ files' = r.files
          /\ dirs' = r.dirs
          /\ built' = r.built
          /\ exc' = r.exc
          /\ ret' = r.ret
          /\ log' = r.log
    /\ op' = "generate_default_config"
    /\ at' = d
    /\ project' = project_name
    /\ arg' = default_kwargs(project_name)
    /\ UNCHANGED <<compose, cfg, doc, invoked, exitCode, locator, earlier, subdirs, compose_cmd>>

ValidateConfigFile(d) ==
    /\ op \in {"init", "save_config", "generate_default_config"}
    /\ LET r == validate_config_file(files, d)
       IN /\ ret' = r.ret
          /\ exc' = r.exc
          /\ log' = r.log
    /\ op' = "validate_config_file"
    /\ at' = d
    /\ UNCHANGED <<files, dirs, compose, cfg, built, arg, project, doc, invoked, exitCode, locator, earlier, subdirs, compose_cmd>>

NextStore ==
    \/ \E data \in StoreDocs : ConstructConfig(data)
    \/ \E d \in Dirs : LoadConfig(d)
    \/ \E d \in Dirs : ValidateConfigFile(d)
    \/ \E d \in Dirs : SaveConfig(d)
    \/ \E n \in ProjectNames, d \in Dirs : GenerateDefaultConfig(n, d)

SpecStore == InitStore /\ [][NextStore]_vars

----------------------------------------------------------------------------
(* Workspace initializer: core/initializer.py, cli.init *)

S_my_lazy_cluster == <<"m","y","_","l","a","z","y","_","c","l","u","s","t","e","r">>

(* os.path.basename(os.path.abspath(directory)) for the directories of the
   chain; the root has the empty name *)
BaseName(d) == IF d = 0 THEN <<>> ELSE IF d = 1 THEN S_castle ELSE S_MyRealm

SubdirNames == <<".lmcp", "templates", "servers">>

(* _create_directories: os.makedirs(dir, exist_ok=True) for the three names in
   order, up to the first one that cannot be made; blocked are the names
   makedirs fails on unless the directory exists: [subdirs, ok] *)
create_directories(sd, d, blocked) ==
    LET fails == {i \in 1..Len(SubdirNames) :
                    SubdirNames[i] \in blocked /\ <<d, SubdirNames[i]>> \notin sd}
        stop == IF fails = {} THEN Len(SubdirNames) + 1
                ELSE CHOOSE i \in fails : \A j \in fails : i <= j
    IN [subdirs |-> sd \cup {<<d, SubdirNames[i]>> : i \in 1..(stop - 1)},
        ok |-> fails = {}]

(* _create_config_file: the project name is the directory's name, or
   my_lazy_cluster when the directory was given as '.' *)
project_name_of(d, dot) == IF dot THEN S_my_lazy_cluster ELSE BaseName(d)

(* variant: lmcp.yaml is taken to be missing whatever is on the disk *)
config_file_exists_never(fs, d) == FALSE

(* os.path.exists(config_file) *)
config_file_exists(fs, d) == Exists(fs, d)

(* initialize(help, directory): directory is d, given as '.' when dot;
   can_make tells whether os.makedirs(directory) succeeds:
   [files, dirs, subdirs, built, exitCode, log] *)
initialize(fs, ds, sd, help, d, dot, can_make, blocked, form) ==
    LET ds1 == IF d \in ds THEN ds ELSE mkdir_parents(ds, d)
        cd == create_directories(sd, d, blocked)
        g == generate_default_config(fs, ds1, project_name_of(d, dot), d, form)
    IN IF help
       THEN \* _show_help raises Exit()
            [files |-> fs, dirs |-> ds, subdirs |-> sd, built |-> None,
             exitCode |-> 0, log |-> <<>>]
       ELSE IF d \notin ds /\ ~can_make
       THEN [files |-> fs, dirs |-> ds, subdirs |-> sd, built |-> None,
             exitCode |-> 1, log |-> <<LogRec("error", "makedirs_failed", "", "")>>]
       ELSE IF ~cd.ok
       THEN [files |-> fs, dirs |-> ds1, subdirs |-> cd.subdirs, built |-> None,
             exitCode |-> 1,
             log |-> <<LogRec("error", "subdir_failed", "", ""),
                       LogRec("error", "directories_failed", "", "")>>]
       ELSE IF config_file_exists(fs, d)
       THEN [files |-> fs, dirs |-> ds1, subdirs |-> cd.subdirs, built |-> None,
             exitCode |-> 0,
             log |-> <<LogRec("warning", "config_exists", "", "")>>]
       ELSE IF g.exc # NoExc
       THEN [files |-> g.files, dirs |-> g.dirs, subdirs |-> cd.subdirs,
             built |-> g.built, exitCode |-> 1,
             log |-> g.log \o <<LogRec("error", "default_failed", "", ""),
                               LogRec("error", "config_file_failed", "", "")>>]
       ELSE [files |-> g.files, dirs |-> g.dirs, subdirs |-> cd.subdirs,
             built |-> g.built, exitCode |-> 0, log |-> g.log]

----------------------------------------------------------------------------
(* Initializer runs *)

WorkspaceFiles == {FileOf(EmptyDoc), FileOfKind("malformed")}

(* the disk when the first command starts: the directories 0..k exist and the
   deepest one may hold an lmcp.yaml somebody wrote *)
InitWorkspace ==
    /\ \E k \in Dirs :
        /\ dirs = 0..k
        /\ \/ files = NoFiles
           \/ \E f \in WorkspaceFiles : files = [NoFiles EXCEPT ![k] = Some(f)]
    /\ compose = None
    /\ cfg = None
    /\ built = None
    /\ op = "init"
    /\ arg = EmptyDoc
    /\ at = 0
    /\ project = <<>>
    /\ exc = NoExc
    /\ ret = None
    /\ doc = None
    /\ log = <<>>
    /\ invoked = <<>>
    /\ exitCode = -1
    /\ earlier = None
    /\ subdirs = {}
    /\ compose_cmd = None
    /\ LocatorIdle

(* lmcp init [--help] --directory d; one run after another on the same
   directory of the same disk *)
Initialize(help, d, dot, can_make, blocked) ==
    /\ op \in {"init", "initialize"}
    /\ op = "initialize" => d = at
    /\ \E form \in RefForms :
       LET r == initialize(files, dirs, subdirs, help, d, dot, can_make, blocked, form)
       IN /\ files' = r.files
          /\ dirs' = r.dirs
          /\ subdirs' = r.subdirs
          /\ built' = r.built
          /\ exitCode' = r.exitCode
          /\ log' = r.log
    /\ op' = "initialize"
    /\ at' = d
    /\ project' = project_name_of(d, dot)
    /\ UNCHANGED <<compose, cfg, arg, exc, ret, doc, invoked, locator, earlier, compose_cmd>>

NextInit ==
    \E help \in BOOLEAN, d \in Dirs, dot \in BOOLEAN, can_make \in BOOLEAN,
       blocked \in SUBSET Range(SubdirNames) :
        Initialize(help, d, dot, can_make, blocked)

SpecInit == InitWorkspace /\ [][NextInit]_vars

----------------------------------------------------------------------------
(* Locator, orchestrator commands and the up command:
   core/config.py, core/orchestrator.py, cli.py *)

MaxSearch == 50

(* the loop of find_config_file: the directory whose lmcp.yaml is returned, or
   None *)
RECURSIVE find_loop(_, _, _)
find_loop(fs, path, count) ==
    IF path = Parent(path) THEN None
    ELSE IF Exists(fs, path) THEN Some(path)
    ELSE IF count + 1 > MaxSearch THEN None
    ELSE find_loop(fs, Parent(path), count + 1)

find_config_file(fs, start_path) == find_loop(fs, start_path, 0)

ComposeCommands == <<"podman-compose", "docker-compose">>

(* Orchestrator._get_compose_command: the first command found on the PATH *)
get_compose_command(bins) ==
    LET found == SelectSeq(ComposeCommands, LAMBDA cmd : cmd \in bins)
    IN IF found = <<>> THEN None ELSE Some(Head(found))

(* the content of compose.yml *)
ComposeFile(d) == [kind |-> "doc", doc |-> d]
TruncatedComposeFile == [kind |-> "empty", doc |-> NoDoc]

(* yaml.dump cannot represent a value that is no plain data *)
representable(d) ==
    \A i \in 1..Len(d.services) : d.services[i].value.image # BoundMethod

(* Orchestrator.up(): [compose, lmcp_dir, invoked, exc, log]; bins are the
   commands on the PATH and returncode is what the compose subprocess returns;
   lmcp_dir is the directory of the compose file once mkdir made sure of it *)
orchestrator_up(c, comp, bins, returncode) ==
    LET g == generate_compose_dict(c)
        cmd == get_compose_command(bins)
    IN IF ~g.ok
       THEN \* except (FileNotFoundError, ValueError): logged, not re-raised
            [compose |-> comp, lmcp_dir |-> None, invoked |-> <<>>, exc |-> NoExc,
             log |-> Append(g.log, LogRec("error", "up_failed", "", ""))]
       ELSE IF ~representable(g.doc)
       THEN \* except Exception: logged, not re-raised; the file was opened for writing
            [compose |-> Some(TruncatedComposeFile), lmcp_dir |-> Some(c.lmcp_dir),
             invoked |-> <<>>, exc |-> NoExc,
             log |-> Append(g.log, LogRec("critical", "up_unexpected", "", ""))]
       ELSE IF IsNone(cmd)
       THEN [compose |-> Some(ComposeFile(g.doc)), lmcp_dir |-> Some(c.lmcp_dir),
             invoked |-> <<>>, exc |-> NoExc,
             log |-> g.log \o <<LogRec("error", "no_compose_command", "", ""),
                               LogRec("error", "up_failed", "", "")>>]
       ELSE IF returncode = 0
       THEN [compose |-> Some(ComposeFile(g.doc)), lmcp_dir |-> Some(c.lmcp_dir),
             invoked |-> <<[cmd |-> Get(cmd), sub |-> "up"]>>, exc |-> NoExc,
             log |-> g.log]
       ELSE [compose |-> Some(ComposeFile(g.doc)), lmcp_dir |-> Some(c.lmcp_dir),
             invoked |-> <<[cmd |-> Get(cmd), sub |-> "up"]>>, exc |-> NoExc,
             log |-> g.log \o <<LogRec("error", "compose_failed", "", ""),
                               LogRec("error", "return_code", "", "")>>]

(* the up command after it found the file: Exit(code=1) in the handler of an
   exception that load_config or Orchestrator.up propagated, 0 otherwise *)
up_exit_code(e) == IF e # NoExc THEN 1 ELSE 0

(* the subdirectories a command made under project_root *)
Made(project_root, lmcp_dir) ==
    IF IsNone(lmcp_dir) THEN {} ELSE {<<project_root, Get(lmcp_dir)>>}

(* cli.up run in directory cwd: [compose, made, invoked, exc, log, exitCode] *)
cli_up(fs, comp, cwd, bins, returncode) ==
    LET config_file_path == find_config_file(fs, cwd)
    IN IF IsNone(config_file_path)
       THEN [compose |-> comp, made |-> {}, invoked |-> <<>>, exc |-> NoExc,
             log |-> <<LogRec("error", "no_config_file", "", ""),
                       LogRec("error", "run_init_first", "", "")>>,
             exitCode |-> 1]
       ELSE LET r == load_config(fs, Get(config_file_path))
            IN IF r.exc # NoExc
               THEN [compose |-> comp, made |-> {}, invoked |-> <<>>, exc |-> r.exc,
                     log |-> Append(r.log, LogRec("error", "up_error", "", "")),
                     exitCode |-> up_exit_code(r.exc)]
               ELSE LET u == orchestrator_up(Get(r.cfg), comp, bins, returncode)
                    IN [compose |-> u.compose,
                        made |-> Made(Get(config_file_path), u.lmcp_dir),
                        invoked |-> u.invoked, exc |-> u.exc,
                        log |-> IF u.exc # NoExc
                                THEN Append(u.log, LogRec("error", "up_error", "", ""))
                                ELSE u.log,
                        exitCode |-> up_exit_code(u.exc)]

(* variant: down does not look whether the compose file exists *)
orchestrator_down_unchecked(c, comp, bins, returncode) ==
    LET cmd == get_compose_command(bins)
    IN IF IsNone(cmd)
       THEN [compose |-> comp, lmcp_dir |-> None, invoked |-> <<>>, exc |-> NoExc,
             log |-> <<LogRec("error", "no_compose_command", "", ""),
                       LogRec("error", "down_failed", "", "")>>]
       ELSE [compose |-> comp, lmcp_dir |-> None,
             invoked |-> <<[cmd |-> Get(cmd), sub |-> "down"]>>, exc |-> NoExc,
             log |-> IF returncode = 0 THEN <<>>
                     ELSE <<LogRec("error", "stop_failed", "", ""),
                            LogRec("error", "return_code", "", "")>>]

(* Orchestrator.down(): [compose, lmcp_dir, invoked, exc, log], as for up *)
orchestrator_down(c, comp, bins, returncode) ==
    LET cmd == get_compose_command(bins)
    IN IF IsNone(comp)
       THEN \* compose_file_path.exists() is false: a warning, and return
            [compose |-> comp, lmcp_dir |-> None, invoked |-> <<>>, exc |-> NoExc,
             log |-> <<LogRec("warning", "compose_not_found", "", "")>>]
       ELSE IF IsNone(cmd)
       THEN \* except FileNotFoundError: logged, not re-raised
            [compose |-> comp, lmcp_dir |-> None, invoked |-> <<>>, exc |-> NoExc,
             log |-> <<LogRec("error", "no_compose_command", "", ""),
                       LogRec("error", "down_failed", "", "")>>]
       ELSE [compose |-> comp, lmcp_dir |-> None,
             invoked |-> <<[cmd |-> Get(cmd), sub |-> "down"]>>, exc |-> NoExc,
             log |-> IF returncode = 0 THEN <<>>
                     ELSE <<LogRec("error", "stop_failed", "", ""),
                            LogRec("error", "return_code", "", "")>>]

(* the down command after it found the file: Exit(code=1) in the handler of an
   exception that load_config or Orchestrator.down propagated, 0 otherwise *)
down_exit_code(e) == IF e # NoExc THEN 1 ELSE 0

(* cli.down run in directory cwd: [compose, made, invoked, exc, log, exitCode] *)
cli_down(fs, comp, cwd, bins, returncode) ==
    LET config_file_path == find_config_file(fs, cwd)
    IN IF IsNone(config_file_path)
       THEN [compose |-> comp, made |-> {}, invoked |-> <<>>, exc |-> NoExc,
             log |-> <<LogRec("error", "no_config_file", "", ""),
                       LogRec("error", "run_in_project_dir", "", "")>>,
             exitCode |-> 1]
       ELSE LET r == load_config(fs, Get(config_file_path))
            IN IF r.exc # NoExc
               THEN [compose |-> comp, made |-> {}, invoked |-> <<>>, exc |-> r.exc,
                     log |-> Append(r.log, LogRec("error", "down_error", "", "")),
                     exitCode |-> down_exit_code(r.exc)]
               ELSE LET w == orchestrator_down(Get(r.cfg), comp, bins, returncode)
                    IN [compose |-> w.compose,
                        made |-> Made(Get(config_file_path), w.lmcp_dir),
                        invoked |-> w.invoked, exc |-> w.exc,
                        log |-> IF w.exc # NoExc
                                THEN Append(w.log, LogRec("error", "down_error", "", ""))
                                ELSE w.log,
                        exitCode |-> down_exit_code(w.exc)]

----------------------------------------------------------------------------
(* Command runs *)

PathSets == SUBSET {"podman-compose", "docker-compose"}
ReturnCodes == {0, 1}

CliFiles ==
    {FileOf(EmptyDoc),
     FileOf([EmptyDoc EXCEPT !.cluster_name = Some(S_castle)]),
     FileOf([EmptyDoc EXCEPT !.bad = {"velocity"}]),
     FileOfKind("malformed")}

CliDocs ==
    {[EmptyDoc EXCEPT !.servers = Some(sv), !.active_servers = act,
                      !.velocity = Some([RawVelocityEmpty EXCEPT !.java_version = vj])] :
        sv \in {<<>>,
                <<[key |-> "lobby", value |-> RawServer(Some("java8"))]>>,
                <<[key |-> "lobby", value |-> RawServer(Some("java17"))]>>,
                <<[key |-> "lobby", value |-> RawServer(Some("model_dump"))]>>},
        act \in {None, Some(Some(<<"survival">>))},
        vj \in {None, Some("java17")}}

(* the disk when the command starts: the directories 0..k exist, some of them
   hold an lmcp.yaml, and compose.yml may be left from an earlier run *)
InitCli ==
    /\ \E k \in Dirs, holders \in SUBSET Dirs, f \in CliFiles :
        /\ holders \subseteq 0..k
        /\ dirs = 0..k
        /\ files = [d \in Dirs |-> IF d \in holders THEN Some(f) ELSE None]
    /\ compose \in {None,
                    Some(ComposeFile(generate_compose_dict(DefaultClusterConfig).doc))}
    /\ cfg = None
    /\ built = None
    /\ op = "init"
    /\ arg = EmptyDoc
    /\ at = 0
    /\ project = <<>>
    /\ exc = NoExc
    /\ ret = None
    /\ doc = None
    /\ log = <<>>
    /\ invoked = <<>>
    /\ exitCode = -1
    /\ earlier = None
    /\ subdirs = {}
    /\ compose_cmd = None
    /\ LocatorIdle

(* lmcp up, run in the existing directory cwd *)
CliUp(cwd, bins, returncode) ==
    /\ op = "init"
    /\ cwd \in dirs
    /\ LET r == cli_up(files, compose, cwd, bins, returncode)
       IN /\ compose' = r.compose
          /\ subdirs' = subdirs \cup r.made
          /\ invoked' = r.invoked
          /\ exc' = r.exc
          /\ log' = r.log
          /\ exitCode' = r.exitCode
    /\ op' = "cli_up"
    /\ at' = cwd
    /\ UNCHANGED <<files, dirs, cfg, built, arg, project, ret, doc, locator, earlier, compose_cmd>>

(* Orchestrator.up() on the orchestrator constructed before; its project_root
   is the directory at *)
OrchestratorUp(bins, returncode) ==
    /\ op = "new"
    /\ LET r == orchestrator_up(Get(cfg), compose, bins, returncode)
       IN /\ compose' = r.compose
          /\ subdirs' = subdirs \cup Made(at, r.lmcp_dir)
          /\ invoked' = r.invoked
          /\ exc' = r.exc
          /\ log' = r.log
    /\ op' = "orchestrator_up"
    /\ UNCHANGED <<files, dirs, cfg, built, arg, at, project, ret, doc, exitCode, locator, earlier, compose_cmd>>

(* lmcp down, run in the existing directory cwd *)
CliDown(cwd, bins, returncode) ==
    /\ op = "init"
    /\ cwd \in dirs
    /\ LET r == cli_down(files, compose, cwd, bins, returncode)
       IN /\ compose' = r.compose
          /\ subdirs' = subdirs \cup r.made
          /\ invoked' = r.invoked
          /\ exc' = r.exc
          /\ log' = r.log
          /\ exitCode' = r.exitCode
    /\ op' = "cli_down"
    /\ at' = cwd
    /\ UNCHANGED <<files, dirs, cfg, built, arg, project, ret, doc, locator, earlier, compose_cmd>>

(* Orchestrator.down() on the orchestrator constructed before, fresh or after
   its up() *)
OrchestratorDown(bins, returncode) ==
    /\ op \in {"new", "orchestrator_up"}
    /\ LET r == orchestrator_down(Get(cfg), compose, bins, returncode)
       IN /\ compose' = r.compose
          /\ subdirs' = subdirs \cup Made(at, r.lmcp_dir)
          /\ invoked' = r.invoked
          /\ exc' = r.exc
          /\ log' = r.log
    /\ op' = "orchestrator_down"
    /\ UNCHANGED <<files, dirs, cfg, built, arg, at, project, ret, doc, exitCode, locator, earlier, compose_cmd>>

NextCli ==
    \/ \E cwd \in Dirs, bins \in PathSets, rc \in ReturnCodes : CliUp(cwd, bins, rc)
    \/ \E data \in CliDocs : NewOrchestrator(data)
    \/ \E bins \in PathSets, rc \in ReturnCodes : OrchestratorUp(bins, rc)
    \/ \E cwd \in Dirs, bins \in PathSets, rc \in ReturnCodes : CliDown(cwd, bins, rc)
    \/ \E bins \in PathSets, rc \in ReturnCodes : OrchestratorDown(bins, rc)

SpecCli == InitCli /\ [][NextCli]_vars

----------------------------------------------------------------------------
(* Steps of the up command: cli.up and Orchestrator.up, one action per step;
   op is the position the run is at: init, up_found (the locator returned a
   path), new (the orchestrator is constructed), up_generated, up_written,
   up_detected, and up_done or up_exit when the run is over *)

(* cli.up: find_config_file(Path.cwd()); Exit(code=1) when there is no file *)
UpFind(cwd) ==
    /\ op = "init"
    /\ cwd \in dirs
    /\ LET config_file_path == find_config_file(files, cwd)
       IN IF IsNone(config_file_path)
          THEN /\ op' = "up_exit"
               /\ at' = cwd
               /\ exitCode' = 1
               /\ log' = <<LogRec("error", "no_config_file", "", ""),
                           LogRec("error", "run_init_first", "", "")>>
          ELSE /\ op' = "up_found"
               /\ at' = Get(config_file_path)
               /\ UNCHANGED <<exitCode, log>>
    /\ UNCHANGED <<files, dirs, compose, cfg, built, arg, project, exc, ret, doc, invoked,
                   locator, earlier, subdirs, compose_cmd>>

(* cli.up: load_config(config_file_path) and Orchestrator(config, project_root);
   Exit(code=1) in the handler of what load_config raises *)
UpLoad ==
    /\ op = "up_found"
    /\ LET r == load_config(files, at)
       IN IF r.exc # NoExc
          THEN /\ op' = "up_exit"
               /\ exc' = r.exc
               /\ log' = Append(r.log, LogRec("error", "up_error", "", ""))
               /\ exitCode' = up_exit_code(r.exc)
               /\ UNCHANGED <<cfg, arg>>
          ELSE /\ op' = "new"
               /\ cfg' = r.cfg
               /\ arg' = r.data
               /\ log' = r.log
               /\ UNCHANGED <<exc, exitCode>>
    /\ UNCHANGED <<files, dirs, compose, built, at, project, ret, doc, invoked,
                   locator, earlier, subdirs, compose_cmd>>

(* variant: the compose file is opened for writing before the document is
   generated *)
UpGenerate_opening_first ==
    /\ op = "new"
    /\ LET g == generate_compose_dict(Get(cfg))
       IN /\ doc' = IF g.ok THEN Some(g.doc) ELSE None
          /\ log' = IF g.ok THEN g.log
                    ELSE Append(g.log, LogRec("error", "up_failed", "", ""))
          /\ op' = IF g.ok THEN "up_generated" ELSE "up_done"
    /\ compose' = Some(TruncatedComposeFile)
    /\ UNCHANGED <<files, dirs, cfg, built, arg, at, project, exc, ret, invoked,
                   exitCode, locator, earlier, subdirs, compose_cmd>>

(* Orchestrator.up, step 1: _generate_compose_dict(); a ValueError ends the
   run in the handler that logs it *)
UpGenerate ==
    /\ op = "new"
    /\ LET g == generate_compose_dict(Get(cfg))
       IN /\ doc' = IF g.ok THEN Some(g.doc) ELSE None
          /\ log' = IF g.ok THEN g.log
                    ELSE Append(g.log, LogRec("error", "up_failed", "", ""))
          /\ op' = IF g.ok THEN "up_generated" ELSE "up_done"
    /\ UNCHANGED <<files, dirs, compose, cfg, built, arg, at, project, exc, ret, invoked,
                   exitCode, locator, earlier, subdirs, compose_cmd>>

(* Orchestrator.up, step 2: mkdir of lmcp_dir, open(compose.yml, 'w') and
   yaml.dump; a document that cannot be represented ends the run in the
   handler of Exception, after the file was opened *)
UpWrite ==
    /\ op = "up_generated"
    /\ subdirs' = subdirs \cup Made(at, Some(Get(cfg).lmcp_dir))
    /\ IF representable(Get(doc))
       THEN /\ compose' = Some(ComposeFile(Get(doc)))
            /\ op' = "up_written"
            /\ UNCHANGED log
       ELSE /\ compose' = Some(TruncatedComposeFile)
            /\ op' = "up_done"
            /\ log' = Append(log, LogRec("critical", "up_unexpected", "", ""))
    /\ UNCHANGED <<files, dirs, cfg, built, arg, at, project, exc, ret, doc, invoked,
                   exitCode, locator, earlier, compose_cmd>>

(* Orchestrator.up, step 3: _get_compose_command(); the FileNotFoundError ends
   the run in the handler that logs it *)
UpDetect(bins) ==
    /\ op = "up_written"
    /\ LET cmd == get_compose_command(bins)
       IN /\ compose_cmd' = cmd
          /\ IF IsNone(cmd)
             THEN /\ op' = "up_done"
                  /\ log' = log \o <<LogRec("error", "no_compose_command", "", ""),
                                      LogRec("error", "up_failed", "", "")>>
             ELSE /\ op' = "up_detected"
                  /\ UNCHANGED log
    /\ UNCHANGED <<files, dirs, compose, cfg, built, arg, at, project, exc, ret, doc,
                   invoked, exitCode, locator, earlier, subdirs>>

(* Orchestrator.up, steps 3 and 4: subprocess.run of <cmd> -f compose.yml up -d
   and the report of its return code *)
UpRun(returncode) ==
    /\ op = "up_detected"
    /\ invoked' = Append(invoked, [cmd |-> Get(compose_cmd), sub |-> "up"])
    /\ log' = IF returncode = 0 THEN log
              ELSE log \o <<LogRec("error", "compose_failed", "", ""),
                            LogRec("error", "return_code", "", "")>>
    /\ op' = "up_done"
    /\ UNCHANGED <<files, dirs, compose, cfg, built, arg, at, project, exc, ret, doc,
                   exitCode, locator, earlier, subdirs, compose_cmd>>

NextUp ==
    \/ \E cwd \in Dirs : UpFind(cwd)
    \/ UpLoad
    \/ \E data \in CliDocs : NewOrchestrator(data)
    \/ UpGenerate
    \/ UpWrite
    \/ \E bins \in PathSets : UpDetect(bins)
    \/ \E rc \in ReturnCodes : UpRun(rc)

SpecUp == InitCli /\ [][NextUp]_vars

----------------------------------------------------------------------------
(* Locator runs: find_config_file, one action per pass of its loop *)

(* variant: the bound is compared one step late *)
exceeded_late(count) == count > MaxSearch + 1

(* the test that ends the loop after the move to the parent: search_count > 50 *)
exceeded(count) == count > MaxSearch

(* a chain on which a directory never equals its own parent: the parent of
   directory 0 is the deepest directory *)
CyclicChain == [d \in Chain |-> IF d = 0 THEN MaxChain ELSE d - 1]

Chains == {NormalChain, CyclicChain}

(* the directories that may hold an lmcp.yaml when a locator run starts *)
HolderDirs == {0, 1, 2, 3, 4, MaxChain - 1, MaxChain}
HolderSets == {h \in SUBSET HolderDirs : Cardinality(h) <= 2}

InitFind ==
    /\ parent \in Chains
    /\ \E holders \in HolderSets :
          files = [d \in Chain |-> IF d \in holders THEN Some(FileOf(EmptyDoc)) ELSE None]
    /\ dirs = Chain
    /\ current_path = 0
    /\ search_count = 0
    /\ compose = None
    /\ cfg = None
    /\ built = None
    /\ op = "init"
    /\ arg = EmptyDoc
    /\ at = 0
    /\ project = <<>>
    /\ exc = NoExc
    /\ ret = None
    /\ doc = None
    /\ log = <<>>
    /\ invoked = <<>>
    /\ exitCode = -1
    /\ earlier = None
    /\ subdirs = {}
    /\ compose_cmd = None

(* find_config_file(start_path) up to the loop: current_path is the resolved
   start path and search_count is 0 *)
FindConfigFile(start_path) ==
    /\ op = "init"
    /\ op' = "find"
    /\ at' = start_path
    /\ current_path' = start_path
    /\ search_count' = 0
    /\ UNCHANGED <<files, dirs, compose, cfg, built, arg, project, exc, ret, doc, log,
                   invoked, exitCode, parent, earlier, subdirs, compose_cmd>>

(* one pass of the loop body: return the file of current_path if it exists,
   else move to the parent, count the move and leave the loop with a warning
   once the count exceeds the maximum *)
FindPass ==
    /\ op = "find"
    /\ current_path # parent[current_path]
    /\ IF Exists(files, current_path)
       THEN /\ ret' = Some(current_path)
            /\ op' = "find_done"
            /\ UNCHANGED <<current_path, search_count, log>>
       ELSE /\ current_path' = parent[current_path]
            /\ search_count' = search_count + 1
            /\ IF exceeded(search_count + 1)
               THEN /\ op' = "find_done"
                    /\ ret' = None
                    /\ log' = <<LogRec("warning", "search_exceeded", "", "")>>
               ELSE /\ op' = "find"
                    /\ UNCHANGED <<ret, log>>
    /\ UNCHANGED <<files, dirs, compose, cfg, built, arg, at, project, exc, doc,
                   invoked, exitCode, parent, earlier, subdirs, compose_cmd>>

(* the loop condition fails: current_path is its own parent; return None *)
FindExit ==
    /\ op = "find"
    /\ current_path = parent[current_path]
    /\ op' = "find_done"
    /\ ret' = None
    /\ UNCHANGED <<files, dirs, compose, cfg, built, arg, at, project, exc, doc, log,
                   invoked, exitCode, locator, earlier, subdirs, compose_cmd>>

NextFind ==
    \/ \E start_path \in Chain : FindConfigFile(start_path)
    \/ FindPass
    \/ FindExit

SpecFind == InitFind /\ [][NextFind]_vars

(* the call runs to its end once it has started: the loop is sequential code
   that nothing holds up *)
SpecFindFair == SpecFind /\ WF_vars(FindPass) /\ WF_vars(FindExit)

----------------------------------------------------------------------------
(* Comment text: _format_description_for_comment and _wrap_long_line.
   A text is the sequence of its lines (the parts between line breaks).  A
   line is [lead, words]: lead spaces followed by the words, given by their
   lengths, with one space between neighbours. *)

MaxWidth == 80

RECURSIVE Sum(_)
Sum(ns) == IF ns = <<>> THEN 0 ELSE Head(ns) + Sum(Tail(ns))

(* len(line) *)
LineLen(line) ==
    line.lead + Sum(line.words)
    + (IF Len(line.words) > 0 THEN Len(line.words) - 1 ELSE 0)

(* a line of the words alone: what the f-string and the word itself build *)
JoinWords(ws) == [lead |-> 0, words |-> ws]

(* variant: the comparison admits one character more *)
fits_one_more(n) == n <= MaxWidth + 1

(* len(test_line) <= 80 *)
fits(n) == n <= MaxWidth

(* the loop of _wrap_long_line over the words left, with current_line (no
   words: the empty string) and the lines wrapped so far *)
RECURSIVE wrap_loop(_, _, _)
wrap_loop(words, current_line, wrapped_lines) ==
    IF words = <<>>
    THEN IF current_line # <<>>
         THEN Append(wrapped_lines, JoinWords(current_line))
         ELSE wrapped_lines
    ELSE LET word == Head(words)
             test_line == IF current_line # <<>> THEN Append(current_line, word)
                          ELSE <<word>>
         IN IF fits(LineLen(JoinWords(test_line)))
            THEN wrap_loop(Tail(words), test_line, wrapped_lines)
            ELSE wrap_loop(Tail(words), <<word>>,
                           IF current_line # <<>>
                           THEN Append(wrapped_lines, JoinWords(current_line))
                           ELSE wrapped_lines)

(* _wrap_long_line(line): line.split() gives the words, without the spaces *)
wrap_long_line(line) == wrap_loop(line.words, <<>>, <<>>)

RECURSIVE format_lines(_)
format_lines(lines) ==
    IF lines = <<>> THEN <<>>
    ELSE (IF LineLen(Head(lines)) <= MaxWidth
          THEN <<Head(lines)>>
          ELSE wrap_long_line(Head(lines)))
         \o format_lines(Tail(lines))

(* _format_description_for_comment(description): the lines of the string it
   returns *)
format_description_for_comment(description) ==
    IF Len(description) = 1 /\ LineLen(description[1]) <= MaxWidth
    THEN description
    ELSE format_lines(description)

(* Input descriptions: one or two lines; a line is up to MaxWords words, or
   spaces only *)
WordLens == {10, 70, 81}
InputLines ==
    {JoinWords(ws) : ws \in SeqsUpTo(WordLens, MaxWords)}
    \cup {[lead |-> 81, words |-> <<>>]}
Descriptions ==
    {<<l>> : l \in InputLines} \cup {<<l1, l2>> : l1 \in InputLines, l2 \in InputLines}

InitFormat ==
    /\ files = NoFiles
    /\ dirs = {0}
    /\ compose = None
    /\ cfg = None
    /\ built = None
    /\ op = "init"
    /\ arg = <<>>
    /\ at = 0
    /\ project = <<>>
    /\ exc = NoExc
    /\ ret = None
    /\ doc = None
    /\ log = <<>>
    /\ invoked = <<>>
    /\ exitCode = -1
    /\ earlier = None
    /\ subdirs = {}
    /\ compose_cmd = None
    /\ LocatorIdle

(* _format_description_for_comment(description); ret holds the lines of the
   returned string *)
FormatDescription(description) ==
    /\ op = "init"
    /\ op' = "format"
    /\ arg' = description
    /\ ret' = Some(format_description_for_comment(description))
    /\ UNCHANGED <<files, dirs, compose, cfg, built, at, project, exc, doc, log,
                   invoked, exitCode, locator, earlier, subdirs, compose_cmd>>

NextFormat == \E description \in Descriptions : FormatDescription(description)

SpecFormat == InitFormat /\ [][NextFormat]_vars

----------------------------------------------------------------------------
(* Properties of the generator (SpecGen) *)

Generated == op = "generate"
TheCfg == Get(cfg)
TheDoc == Get(doc)

(* the keys of the images mapping of a configuration *)
ImageKeys(c) == DOMAIN c.container_env.images

Resolves(c, key) == key \in ImageKeys(c)

AllResolve(c) ==
    /\ Resolves(c, c.velocity.java_version)
    /\ \A i \in 1..Len(c.servers) : Resolves(c, c.servers[i].value.java_version)

(* the listed names that are keys of servers, in list order; all keys when
   there is no list *)
ActiveOrder(c) ==
    IF IsNone(c.active_servers) THEN Keys(c.servers)
    ELSE SelectSeq(Get(c.active_servers), LAMBDA n : n \in KeySet(c.servers))

MissingListed(c) ==
    IF IsNone(c.active_servers) THEN <<>>
    ELSE SelectSeq(Get(c.active_servers), LAMBDA n : n \notin KeySet(c.servers))

RECURSIVE Dedup(_)
Dedup(s) ==
    IF s = <<>> THEN <<>>
    ELSE LET front == Dedup(SubSeq(s, 1, Len(s) - 1))
             last == s[Len(s)]
         IN IF last \in Range(front) THEN front ELSE Append(front, last)

(* the active servers whose runtime identifier is no key of images, in order *)
UnresolvedServers(c) ==
    SelectSeq(ActiveOrder(c),
              LAMBDA n : ~Resolves(c, Lookup(c.servers, n).java_version))

(* C3: when the proxy's runtime identifier, or that of an active server, is no
   key of the images mapping, generation fails with an error naming the first
   such entity (proxy first, then the servers in active order) and returns no
   document. *)
C3_UnresolvedImageFails ==
    Generated =>
        LET c == TheCfg
        IN /\ ~Resolves(c, c.velocity.java_version) =>
                /\ doc = None
                /\ exc = Exc("ValueError", "velocity_image", "", c.velocity.java_version)
           /\ (Resolves(c, c.velocity.java_version) /\ UnresolvedServers(c) # <<>>) =>
                /\ doc = None
                /\ exc.type = "ValueError"
                /\ exc.what = "server_image"
                /\ exc.subject = Head(UnresolvedServers(c))

(* C4: with active_servers absent and every runtime identifier resolving, the
   generated service names are the proxy's service name and every key of
   servers, one definition per name. *)
C4_AllServersWhenAbsent ==
    (Generated /\ IsNone(TheCfg.active_servers) /\ AllResolve(TheCfg)) =>
        /\ IsSome(doc)
        /\ KeySet(TheDoc.services) =
              {TheCfg.velocity.service_name} \cup KeySet(TheCfg.servers)
        /\ IsInj(Keys(TheDoc.services))

C4_Witness ==
    /\ Generated
    /\ IsNone(TheCfg.active_servers)
    /\ AllResolve(TheCfg)
    /\ Len(TheCfg.servers) = 2
    /\ IsSome(doc)
    /\ Len(TheDoc.services) = 3

WarnedNames ==
    LET w == SelectSeq(log, LAMBDA r : r.level = "warning" /\ r.what = "undefined_server")
    IN [i \in 1..Len(w) |-> w[i].subject]

WithoutMissing(c) ==
    [c EXCEPT !.active_servers = IF IsNone(c.active_servers) THEN None
                                 ELSE Some(ActiveOrder(c))]

C5_Common ==
    LET c == TheCfg
    IN /\ WarnedNames = MissingListed(c)
       /\ IsSome(doc) =>
            Keys(TheDoc.services) = Dedup(<<c.velocity.service_name>> \o ActiveOrder(c))
       /\ doc = (IF generate_compose_dict(WithoutMissing(c)).ok
                 THEN Some(generate_compose_dict(WithoutMissing(c)).doc) ELSE None)
       /\ exc = generate_compose_dict(WithoutMissing(c)).exc

(* C5 as stated: with active_servers present, the active set is the listed
   names that are keys of servers, in list order; each listed name that is no
   key of servers is warned about, is absent from the generated services, and
   does not change whether generation succeeds. *)
C5_MissingNamesExcluded ==
    (Generated /\ IsSome(TheCfg.active_servers)) =>
        /\ C5_Common
        /\ IsSome(doc) =>
             \A n \in Range(MissingListed(TheCfg)) : n \notin KeySet(TheDoc.services)

(* C5 as amended: the same, except that a listed name that is no key of
   servers is among the generated services exactly when it is the proxy's
   service name (the proxy's service is always generated); no server service
   is generated for it. *)
C5_MissingNamesGetNoService ==
    (Generated /\ IsSome(TheCfg.active_servers)) =>
        /\ C5_Common
        /\ IsSome(doc) =>
             \A n \in Range(MissingListed(TheCfg)) :
                n \in KeySet(TheDoc.services) <=> n = TheCfg.velocity.service_name

C5_Witness ==
    /\ Generated
    /\ IsSome(TheCfg.active_servers)
    /\ Len(MissingListed(TheCfg)) = 1
    /\ Len(ActiveOrder(TheCfg)) = 1
    /\ Len(WarnedNames) = 1
    /\ IsSome(doc)
    /\ Len(TheDoc.services) = 2

(* the images section of the mapping gives the key java17 *)
GivesJava17(data) ==
    /\ IsSome(data.container_env)
    /\ IsSome(Get(data.container_env).images)
    /\ "java17" \in Get(Get(data.container_env).images).extra

(* the runtime identifier of the entity a service is generated for *)
RuntimeOf(c, name) ==
    IF name \in Range(ActiveOrder(c))
    THEN Lookup(c.servers, name).java_version
    ELSE c.velocity.java_version

(* C16: a configuration whose images section adds the key java17 is accepted
   and keeps that key, and when every runtime identifier in use is java17 or
   one of the declared keys, generation succeeds and each service whose
   runtime identifier is java17 has the image given for java17. *)
C16_ImagesExtensible ==
    (Generated /\ GivesJava17(arg)) =>
        LET c == TheCfg
            known == ImageKeys(c) \cup {"java17"}
        IN /\ "java17" \in ImageKeys(c)
           /\ (/\ c.velocity.java_version \in known
               /\ \A n \in Range(ActiveOrder(c)) :
                     Lookup(c.servers, n).java_version \in known) =>
                /\ IsSome(doc)
                /\ \A i \in 1..Len(TheDoc.services) :
                     RuntimeOf(c, TheDoc.services[i].key) = "java17" =>
                        TheDoc.services[i].value.image = Java17Image

ProxyName == TheCfg.velocity.service_name

(* the first service is the definition generated for the proxy *)
ProxyServiceFirst ==
    /\ TheDoc.services[1].key = ProxyName
    /\ TheDoc.services[1].value.ports =
          Some(<<[host |-> TheCfg.velocity.port, container |-> VelocityContainerPort]>>)

(* C19 as stated: the service map of every generated document lists the
   proxy's service first and then the active servers in exactly the order
   determined for the active set. *)
C19_ProxyFirstThenActive ==
    (Generated /\ IsSome(doc)) =>
        /\ Keys(TheDoc.services) = <<ProxyName>> \o ActiveOrder(TheCfg)
        /\ ProxyServiceFirst

(* C19 as amended: the keys of the service map are the proxy's service name
   first and then the active server names in the order determined, each name
   once, at its first occurrence; the first service is the proxy's unless an
   active server has the proxy's service name, whose definition then takes
   the proxy's place; every active server's service is the one generated for
   that server. *)
C19_ProxyNameFirstThenActiveOnce ==
    (Generated /\ IsSome(doc)) =>
        /\ Keys(TheDoc.services) = Dedup(<<ProxyName>> \o ActiveOrder(TheCfg))
        /\ ProxyName \notin Range(ActiveOrder(TheCfg)) => ProxyServiceFirst
        /\ \A n \in Range(ActiveOrder(TheCfg)) :
              /\ Lookup(TheDoc.services, n).ports = None
              /\ Lookup(TheDoc.services, n).container_name.name = n

C19_Witness ==
    /\ Generated
    /\ IsSome(doc)
    /\ IsSome(TheCfg.active_servers)
    /\ ActiveOrder(TheCfg) = <<"survival", "lobby">>
    /\ ProxyName = "lobby"
    /\ Keys(TheDoc.services) = <<"lobby", "survival">>

(* the network name the mapping gives, or the schema's default *)
GivenNetworkName(data) ==
    LET ce == OrElse(data.container_env, RawContainerEnvEmpty)
        nw == OrElse(ce.network, RawNetworkEmpty)
    IN OrElse(nw.name, S_MyLMCPNetwork)

(* C20: every generated document has exactly one network definition, keyed
   and named by container_env.network.name, with the bridge driver, and every
   service lists exactly that network as its networks. *)
C20_OneBridgeNetwork ==
    (Generated /\ IsSome(doc)) =>
        LET name == GivenNetworkName(arg)
        IN /\ TheCfg.container_env.network.name = name
           /\ Len(TheDoc.networks) = 1
           /\ TheDoc.networks[1].key = name
           /\ TheDoc.networks[1].value = [driver |-> "bridge", name |-> name]
           /\ \A i \in 1..Len(TheDoc.services) :
                 TheDoc.services[i].value.networks = <<name>>

C20_Witness ==
    /\ Generated
    /\ IsSome(doc)
    /\ GivenNetworkName(arg) = S_castle \o S_net
    /\ Len(TheDoc.services) = 3
    /\ Len(TheDoc.networks) = 1

(* C21: generation is deterministic and leaves its input untouched: a second
   run of the generator on the same orchestrator gives the outcome of the
   first (the same document, key for key in the same order, or the same
   error), and after every run the configuration object is still the one the
   schema built from the input mapping. *)
C21_DeterministicInputUntouched ==
    Generated =>
        /\ cfg = Some(ClusterConfig(arg).cfg)
        /\ IsSome(earlier) => Get(earlier) = Outcome(doc, exc)

C21_Witness ==
    /\ Generated
    /\ IsSome(earlier)
    /\ IsSome(Get(earlier).doc)
    /\ Len(Get(Get(earlier).doc).services) = 3
    /\ Len(MissingListed(TheCfg)) = 0
    /\ IsSome(TheCfg.active_servers)

(* the defined servers that are not in the active set *)
InactiveServers(c) == KeySet(c.servers) \ Range(ActiveOrder(c))

(* the configuration without the definition of server n *)
WithoutServer(c, n) == [c EXCEPT !.servers = SelectSeq(@, LAMBDA e : e.key # n)]

(* C25: a server that is defined in servers but is not in the active set
   never affects generation: when the proxy's runtime identifier and those of
   the active servers are keys of images, generation succeeds whatever the
   inactive server's runtime identifier is, and the outcome (document or
   error) and the warnings are those of the configuration without that
   server. *)
C25_InactiveServerIgnored ==
    Generated =>
        LET c == TheCfg
        IN /\ (/\ Resolves(c, c.velocity.java_version)
               /\ \A n \in Range(ActiveOrder(c)) :
                     Resolves(c, Lookup(c.servers, n).java_version)) => IsSome(doc)
           /\ \A n \in InactiveServers(c) :
                 LET g == generate_compose_dict(WithoutServer(c, n))
                 IN /\ doc = (IF g.ok THEN Some(g.doc) ELSE None)
                    /\ exc = g.exc
                    /\ log = g.log

C25_Witness ==
    /\ Generated
    /\ IsSome(doc)
    /\ Keys(TheCfg.servers) = <<"lobby", "survival">>
    /\ InactiveServers(TheCfg) = {"survival"}
    /\ Lookup(TheCfg.servers, "survival").java_version = "java17"
    /\ ~Resolves(TheCfg, "java17")
    /\ Keys(TheDoc.services) = <<"velocity", "lobby">>

(* C23: every generated document, for every configuration that generates
   successfully (a server key may equal the proxy's service_name, and
   active_servers may list a name twice), contains the proxy's service
   definition with its port mapping '<port>:25565', and the number of
   services is 1 plus the number of distinct active server names. *)
C23_ProxyPresentAndCounted ==
    (Generated /\ IsSome(doc)) =>
        /\ HasKey(TheDoc.services, ProxyName)
        /\ Lookup(TheDoc.services, ProxyName).ports =
              Some(<<[host |-> TheCfg.velocity.port, container |-> VelocityContainerPort]>>)
        /\ Len(TheDoc.services) = 1 + Cardinality(Range(ActiveOrder(TheCfg)))

----------------------------------------------------------------------------
(* Properties of the store (SpecStore) *)

NestedExtras(data) ==
    LET ce == OrElse(data.container_env, RawContainerEnvEmpty)
        nw == OrElse(ce.network, RawNetworkEmpty)
        im == OrElse(ce.images, RawImagesEmpty)
        ve == OrElse(data.velocity, RawVelocityEmpty)
        sv == OrElse(data.servers, <<>>)
    IN ce.extra \cup nw.extra \cup im.extra \cup ve.extra
       \cup UNION {sv[i].value.extra : i \in 1..Len(sv)}

HasUnknownKey(data) == data.extra \cup NestedExtras(data) # {}

SatisfiesSchema(data) == data.bad = {} /\ ~HasUnknownKey(data)

(* every field the mapping gives holds the given value, every other field
   holds the default the schema declares *)
FieldsFromMapping(c, data) ==
    LET ce == OrElse(data.container_env, RawContainerEnvEmpty)
        nw == OrElse(ce.network, RawNetworkEmpty)
        im == OrElse(ce.images, RawImagesEmpty)
        ve == OrElse(data.velocity, RawVelocityEmpty)
        Field(given, value, default) ==
            IF IsSome(given) THEN value = Get(given) ELSE value = default
    IN /\ Field(data.cluster_name, c.cluster_name, S_MyLMCPCluster)
       /\ Field(data.lmcp_dir, c.lmcp_dir, ".lmcp")
       /\ Field(data.servers_dir, c.servers_dir, "servers")
       /\ Field(data.templates_dir, c.templates_dir, "templates")
       /\ Field(nw.name, c.container_env.network.name, S_MyLMCPNetwork)
       /\ Field(im.java8, c.container_env.images.java8, "localhost/lmcp:jre8-py312")
       /\ Field(im.java21, c.container_env.images.java21, "localhost/lmcp:jre21-py312")
       /\ Field(ve.service_name, c.velocity.service_name, "velocity")
       /\ Field(ve.java_version, c.velocity.java_version, "java21")
       /\ Field(ve.port, c.velocity.port, 25565)
       /\ Field(data.active_servers, c.active_servers, None)
       /\ IF IsNone(data.servers)
          THEN c.servers = << [key |-> "lobby", value |-> [java_version |-> "java21"]],
                              [key |-> "survival", value |-> [java_version |-> "java8"]] >>
          ELSE /\ Keys(c.servers) = Keys(Get(data.servers))
               /\ \A i \in 1..Len(c.servers) :
                    Field(Get(data.servers)[i].value.java_version,
                          c.servers[i].value.java_version, "java21")

LoadedFile == Get(files[at])

(* C1: load_config on an existing file whose content is a mapping satisfying
   the schema raises nothing and returns a ClusterConfig whose every field
   holds the file's value when the file gives one and the schema's default
   otherwise. *)
C1_LoadReturnsDefaultedConfig ==
    (/\ op = "load_config"
     /\ Exists(files, at)
     /\ LoadedFile.kind = "map"
     /\ SatisfiesSchema(LoadedFile.data)) =>
        /\ exc = NoExc
        /\ IsSome(cfg)
        /\ FieldsFromMapping(Get(cfg), LoadedFile.data)

(* C2: constructing or loading a configuration that has an unknown key, at the
   top level or in a nested entity, is rejected with a schema violation and
   yields no ClusterConfig. *)
C2_UnknownKeyRejected ==
    (op \in {"construct", "load_config"} /\ HasUnknownKey(arg)) =>
        /\ exc.type = "ValidationError"
        /\ cfg = None

(* the all-default configuration named name *)
DefaultsNamed(name) ==
    [DefaultClusterConfig EXCEPT !.cluster_name = name]

(* C6: generate_default_config(projectName, path) writes a configuration whose
   cluster_name is projectName and whose every other field is the schema's
   default. *)
C6_DefaultFileNamedAfterProject ==
    op = "generate_default_config" =>
        /\ exc = NoExc
        /\ Exists(files, at)
        /\ LoadedFile.kind = "map"
        /\ FieldsFromMapping(DefaultsNamed(project), LoadedFile.data)
        /\ \A f \in ClusterConfigFields : IsSome(LoadedFile.data[f])

(* C7: loading the file generate_default_config("castle") writes and
   generating from it gives 3 services (proxy, lobby, survival) and 1 network,
   with container names castle-velocity, castle-lobby, castle-survival. *)
C7_CastleClusterDefinition ==
    (op = "generate_default_config" /\ project = S_castle) =>
        LET r == load_config(files, at)
        IN /\ r.exc = NoExc
           /\ IsSome(r.cfg)
           /\ LET g == generate_compose_dict(Get(r.cfg))
              IN /\ g.ok
                 /\ Keys(g.doc.services) = <<"velocity", "lobby", "survival">>
                 /\ Len(g.doc.networks) = 1
                 /\ \A i \in 1..Len(g.doc.services) :
                        g.doc.services[i].value.container_name =
                            [slug |-> S_castle, name |-> g.doc.services[i].key]

(* C8: for every project name, generate default config, save it and load the
   saved file completes without error, and the loaded ClusterConfig equals
   the one generate_default_config built. *)
C8_DefaultRoundTrip ==
    op = "generate_default_config" =>
        /\ exc = NoExc
        /\ IsSome(built)
        /\ LET s == save_config(files, dirs, Get(built), at)
               r == load_config(s.files, at)
           IN /\ s.exc = NoExc
              /\ r.exc = NoExc
              /\ r.cfg = built

(* C9: save_config(config, path) creates the missing parent directories,
   writes the serialized configuration to path and returns path without
   raising. *)
C9_SaveWritesAndReturnsPath ==
    op = "save_config" =>
        /\ 0..at \subseteq dirs
        /\ files[at] = Some(FileOf(model_dump(Get(cfg))))
        /\ exc = NoExc
        /\ ret = Some(at)

(* C14: validate_config_file never raises; it returns a boolean that is true
   exactly when load_config on the same path succeeds, and false for every
   kind of load failure. *)
C14_ValidateNeverRaises ==
    op = "validate_config_file" =>
        /\ exc = NoExc
        /\ ret \in {Some(TRUE), Some(FALSE)}
        /\ ret = Some(TRUE) <=> load_config(files, at).exc = NoExc

C14_Witness ==
    /\ op = "validate_config_file"
    /\ Exists(files, at)
    /\ load_config(files, at).exc.type \notin ValidateNamed \cup {""}
    /\ ret = Some(FALSE)
    /\ exc = NoExc

(* the exception class load_config raises for a file of the given content *)
LoadErrorType(content) ==
    load_config([NoFiles EXCEPT ![0] = content], 0).exc.type

NotFoundType == LoadErrorType(None)
ParseErrorType == LoadErrorType(Some(FileOfKind("malformed")))
SchemaViolationTypes == {LoadErrorType(Some(FileOf(d))) : d \in WrongShapeDocs}
ShapeErrorTypes ==
    {LoadErrorType(Some(FileOfKind(k))) : k \in {"list", "scalar", "empty"}}

(* C15: load_config on a file whose top-level value is no mapping (a list, a
   scalar, an empty document) returns no configuration and fails with one
   error kind, ShapeError, that differs from the kinds it fails with for a
   missing file, a malformed file and a schema violation. *)
C15_ShapeErrorDistinct ==
    (/\ op = "load_config"
     /\ Exists(files, at)
     /\ LoadedFile.kind \in {"list", "scalar", "empty"}) =>
        /\ cfg = None
        /\ exc # NoExc
        /\ ShapeErrorTypes = {exc.type}
        /\ exc.type \notin {NotFoundType, ParseErrorType} \cup SchemaViolationTypes

(* the field a path of keys ends at, by the declarations of the schema
   classes; None when the path ends at a key of a dict, which is no field *)
RECURSIVE FieldAt(_, _)
FieldAt(cls, path) ==
    LET hit == SelectSeq(ModelFields[cls], LAMBDA f : f.name = Head(path))
    IN IF hit = <<>> THEN None
       ELSE IF Len(path) = 1 THEN Some(Head(hit))
       ELSE IF Head(hit).model # "" THEN FieldAt(Head(hit).model, Tail(path))
       ELSE IF Head(hit).values # "" /\ Len(path) > 2
       THEN FieldAt(Head(hit).values, Tail(Tail(path)))
       ELSE None

FieldNames(cls) == [i \in 1..Len(ModelFields[cls]) |-> ModelFields[cls][i].name]

(* the keys written directly under a path, in the order they are written *)
ChildKeys(comments, path) ==
    LET under == SelectSeq(comments,
                           LAMBDA e : /\ Len(e.path) = Len(path) + 1
                                      /\ SubSeq(e.path, 1, Len(path)) = path)
    IN [i \in 1..Len(under) |-> under[i].path[Len(path) + 1]]

(* C17: in the file generate_default_config writes, every field of the
   configuration tree, at every depth, has the comment of the description its
   schema class declares placed before it, and the keys of every class appear
   in declaration order. *)
C17_EveryFieldCommented ==
    (op = "generate_default_config" /\ exc = NoExc) =>
        LET written == LoadedFile.comments
        IN /\ ChildKeys(written, <<>>) = FieldNames("ClusterConfig")
           /\ \A i \in 1..Len(written) :
                LET f == FieldAt("ClusterConfig", written[i].path)
                IN IsSome(f) =>
                    /\ written[i].comment = Some(Comment(Get(f).description))
                    /\ Get(f).model # "" =>
                          ChildKeys(written, written[i].path) = FieldNames(Get(f).model)

----------------------------------------------------------------------------
(* Properties of the commands (SpecCli) *)

ErrorReported == Reported(log) # {}

(* C10: the up command ends with exit code 1 whenever an error is reported
   during the run (no config file, load or validation failure, unresolved
   image, no compose command on the PATH, non-zero return code of the
   compose subprocess) and with exit code 0 only when none is; the exit code
   of a run that reaches Orchestrator.up is the one the command derives from
   how Orchestrator.up ends. *)
C10_UpExitCode ==
    /\ op = "cli_up" => (exitCode = 1 <=> ErrorReported) /\ exitCode \in {0, 1}
    /\ op = "orchestrator_up" => (up_exit_code(exc) = 1 <=> ErrorReported)

(* the positions of a run of the up command, in the order of its steps: find,
   load, generate, write, detect, invoke *)
UpOrder == <<"init", "up_found", "new", "up_generated", "up_written", "up_detected">>
UpOver == {"up_done", "up_exit"}

PositionOf(o) == CHOOSE i \in 1..Len(UpOrder) : UpOrder[i] = o

(* the step an ongoing run takes next is the one the order gives; an
   orchestrator constructed directly starts at generate *)
NextInOrder ==
    \/ op' \in UpOver
    \/ PositionOf(op') = PositionOf(op) + 1
    \/ op = "init" /\ op' = "new"

GenerationFails == op = "new" /\ ~generate_compose_dict(Get(cfg)).ok

(* C22: in every run of the up command the steps happen in the order find,
   load, generate, write the compose file, detect the orchestrator binary,
   invoke it: the orchestrator is invoked at most once and only after the
   compose file of this run has been written, and when generation fails the
   compose file is left unchanged, the run is over and the orchestrator is
   never invoked. *)
C22_UpStepsInOrder ==
    [][/\ op \notin UpOver
       /\ NextInOrder
       /\ invoked' # invoked =>
             /\ op = "up_detected"
             /\ invoked = <<>>
             /\ invoked' = <<[cmd |-> Get(compose_cmd), sub |-> "up"]>>
             /\ IsSome(doc)
             /\ compose = Some(ComposeFile(Get(doc)))
             /\ compose' = compose
       /\ compose' # compose => op = "up_generated" /\ IsSome(doc)
       /\ GenerationFails =>
             /\ op' = "up_done"
             /\ doc' = None
             /\ compose' = compose
             /\ invoked' = <<>>]_vars

C22_Witness ==
    /\ op = "up_done"
    /\ Len(invoked) = 1
    /\ IsSome(doc)
    /\ compose = Some(ComposeFile(Get(doc)))
    /\ Len(Get(doc).services) = 2

DownRan == op' \in {"cli_down", "orchestrator_down"}

(* C24: the down command never generates or writes the compose file: it
   invokes the orchestrator's down subcommand at most once and only against a
   compose file that already exists, and when no compose file exists it
   invokes nothing and changes nothing on disk. *)
C24_DownLeavesDisk ==
    [][DownRan =>
        /\ compose' = compose
        /\ doc' = doc
        /\ files' = files /\ dirs' = dirs /\ subdirs' = subdirs
        /\ Len(invoked') <= 1
        /\ invoked' # <<>> => IsSome(compose) /\ invoked'[1].sub = "down"
        /\ IsNone(compose) => invoked' = <<>>]_vars

C24_Witness ==
    /\ op = "orchestrator_down"
    /\ IsSome(compose)
    /\ invoked = <<[cmd |-> "podman-compose", sub |-> "down"]>>
    /\ log # <<>>

----------------------------------------------------------------------------
(* Properties of the initializer (SpecInit) *)

AllSubdirs(d) == {<<d, SubdirNames[i]>> : i \in 1..Len(SubdirNames)}

(* C26: the init command creates the internal-state, templates and servers
   subdirectories before it generates the configuration file, and it never
   overwrites an existing lmcp.yaml: a run changes no lmcp.yaml that exists,
   so after any sequence of runs the file holds what it held after the first
   run (or what it held before); the only file a run creates is that of its
   directory, and when it does, the directory and its three subdirectories
   exist. *)
C26_InitKeepsConfigFile ==
    [][op' = "initialize" =>
        \A d \in Dirs :
            /\ IsSome(files[d]) => files'[d] = files[d]
            /\ files'[d] # files[d] =>
                  /\ d = at'
                  /\ d \in dirs'
                  /\ AllSubdirs(d) \subseteq subdirs']_vars

C26_Witness ==
    /\ op = "initialize"
    /\ LogRec("warning", "config_exists", "", "") \in Range(log)
    /\ project = S_my_lazy_cluster
    /\ Exists(files, at)
    /\ Get(files[at]).data.container_env # None
    /\ Get(Get(Get(files[at]).data.container_env).network).name = Some(BaseName(at) \o S_net)
    /\ AllSubdirs(at) \subseteq subdirs

----------------------------------------------------------------------------
(* Properties of the locator (SpecFind, SpecFindFair) *)

FindDone == op = "find_done"

(* the directory k levels above d *)
RECURSIVE Up(_, _)
Up(d, k) == IF k = 0 THEN d ELSE Up(parent[d], k - 1)

(* the directories 0 .. k levels above d are k + 1 different directories *)
DistinctUpTo(d, k) == Cardinality({Up(d, j) : j \in 0..k}) = k + 1

NoFileWithin(d, k) == \A j \in 0..k : ~Exists(files, Up(d, j))

(* the two models of find_config_file agree on a chain that ends in a root *)
FindAgrees ==
    (FindDone /\ parent = NormalChain) => ret = find_config_file(files, at)

(* C11: when the ancestor 3 levels above the start directory holds the file
   and no closer directory does, find_config_file returns that ancestor's
   file, whatever farther ancestors hold. *)
C11_NearestAncestorThreeUp ==
    (/\ FindDone
     /\ DistinctUpTo(at, 3)
     /\ Exists(files, Up(at, 3))
     /\ NoFileWithin(at, 2)) =>
        ret = Some(Up(at, 3))

(* C12: for every start directory, the root included, when the start
   directory or one of its ancestors up to the root and within the step bound
   holds the file, find_config_file returns a file and not None. *)
C12_FoundWhenPresent ==
    (FindDone /\ ~NoFileWithin(at, MaxSearch)) => IsSome(ret)

C13_AbsentWhenNoneWithinBound ==
    (FindDone /\ NoFileWithin(at, MaxSearch)) => ret = None

(* C13 as stated: every call makes at most 50 moves to a parent directory,
   also on a chain where no directory is its own parent, and returns None
   when no file is found within that bound. *)
C13_AtMost50Steps ==
    /\ search_count <= MaxSearch
    /\ C13_AbsentWhenNoneWithinBound

C13_Bounded ==
    /\ search_count <= MaxSearch + 1
    /\ (FindDone /\ IsSome(ret)) =>
            /\ search_count <= MaxSearch
            /\ ret = Some(Up(at, search_count))
    /\ C13_AbsentWhenNoneWithinBound

(* C13 as amended: every call ends, after at most 51 moves to a parent
   directory, also on a chain where no directory is its own parent; the 51st
   move ends the search without looking at the directory it reaches, so a
   returned file lies at most 50 levels above the start directory; the call
   returns None when no file is found within that bound. *)
C13_TerminatesWithin51Steps ==
    /\ []C13_Bounded
    /\ (op = "find") ~> FindDone

C13_Witness ==
    /\ FindDone
    /\ parent = CyclicChain
    /\ search_count = MaxSearch + 1
    /\ ret = None
    /\ ~NoFileWithin(at, MaxSearch + 1)

----------------------------------------------------------------------------
(* Properties of the comment text (SpecFormat) *)

Formatted == op = "format"

RECURSIVE WordsOf(_)
WordsOf(lines) == IF lines = <<>> THEN <<>> ELSE Head(lines).words \o WordsOf(Tail(lines))

(* the groups of output lines a line of the description may have: strict, at
   least one line; otherwise none exactly for a line of more than 80
   characters without a word *)
GroupAllowed(strict, line, group) ==
    IF strict THEN group # <<>>
    ELSE group = <<>> <=> (line.words = <<>> /\ LineLen(line) > MaxWidth)

(* out is, line of the description by line, a group of output lines that
   holds exactly the words of that line in their order *)
RECURSIVE SplitsInto(_, _, _)
SplitsInto(out, description, strict) ==
    IF description = <<>> THEN out = <<>>
    ELSE \E k \in 0..Len(out) :
            /\ GroupAllowed(strict, Head(description), SubSeq(out, 1, k))
            /\ WordsOf(SubSeq(out, 1, k)) = Head(description).words
            /\ SplitsInto(SubSeq(out, k + 1, Len(out)), Tail(description), strict)

(* C18 as stated: the formatted comment keeps each explicit line break, wraps
   each line on its own, splits no word, keeps the words of each line in
   order, and each of its lines is at most 80 characters long. *)
C18_WrappedWithin80 ==
    Formatted =>
        /\ SplitsInto(Get(ret), arg, TRUE)
        /\ \A i \in 1..Len(Get(ret)) : LineLen(Get(ret)[i]) <= MaxWidth

(* C18 as amended: the same, except that a line of the comment may be longer
   than 80 characters when it is a single word that is itself longer, and
   that a line of the description that is longer than 80 characters and has
   no word gives no line of the comment (its line break is lost). *)
C18_WrappedWithin80OrOneWord ==
    Formatted =>
        /\ SplitsInto(Get(ret), arg, FALSE)
        /\ \A i \in 1..Len(Get(ret)) :
              \/ LineLen(Get(ret)[i]) <= MaxWidth
              \/ Get(ret)[i].lead = 0 /\ Len(Get(ret)[i].words) = 1

C18_Witness ==
    /\ Formatted
    /\ Len(arg) = 2
    /\ arg[1].words = <<10, 70, 81>>
    /\ arg[2].words = <<10, 10>>
    /\ Len(Get(ret)) = 4

====
